---- MODULE Spec2Model ----
(***************************************************************************)
(* Model of the Thrift analyzer of thrift-ls (lib/analyzer): the documents *)
(* it holds, the include resolution of parse_document, the symbol tables,  *)
(* the static check, the semantic tokens and the positional queries.       *)
(*                                                                         *)
(* Texts are sequences of one-character strings, so that file stems, the   *)
(* first dot of an identifier and token widths are computed, not assumed.  *)
(* A document is a sequence of source lines, one statement per line,       *)
(* starting in column 1 with single spaces between tokens:                 *)
(*     include "<literal>"        (header)                                 *)
(*     struct <name> {}           (definition of a type)                   *)
(*     const <type> k = 1         (definition that references a type)      *)
(***************************************************************************)
EXTENDS Integers, Sequences, FiniteSets, TLC

VARIABLES documents, document_nodes, symbol_tables, errors, semantic_tokens,
          disk, crashed, log, prev,
          scan_input, scan_state, scan_log,
          parse_input, parse_result,
          loop_parser, loop_pc,
          wire, closed, buffer, server_pc, server_message, handled, written,
          initialized, sent

analyzer_vars == <<documents, document_nodes, symbol_tables, errors, semantic_tokens,
                   disk, crashed, log, prev>>

scan_vars == <<scan_input, scan_state, scan_log>>

parse_vars == <<parse_input, parse_result>>

loop_vars == <<loop_parser, loop_pc>>

server_vars == <<wire, closed, buffer, server_pc, server_message, handled, written,
                 initialized, sent>>

vars == <<analyzer_vars, scan_vars, parse_vars, loop_vars, server_vars>>

(***************************************************************************)
(* Bounds of the model.                                                    *)
(***************************************************************************)
MaxOps == 3

(***************************************************************************)
(* Texts.                                                                  *)
(***************************************************************************)
Dot == "."
Slash == "/"

PathA == <<"a", ".", "t">>
PathB == <<"b", ".", "t">>
PathC == <<"c", ".", "t">>
PathM == <<"m", ".", "t">>

Paths == {PathA, PathB, PathC}

NameT == <<"T">>
NameU == <<"U">>
NameK == <<"k">>
NameBT == <<"b", ".", "T">>
NameBCT == <<"b", ".", "c", ".", "T">>

Inc(literal) == [stmt |-> "include", arg |-> literal]
Def(name) == [stmt |-> "struct", arg |-> name]
Ref(name) == [stmt |-> "const", arg |-> name]
Line(text) == [stmt |-> "line", arg |-> text]

(***************************************************************************)
(* Maps (HashMap): functions with a finite domain.                         *)
(***************************************************************************)
EmptyMap == [x \in {} |-> 0]

Put(m, k, v) == [x \in (DOMAIN m) \cup {k} |-> IF x = k THEN v ELSE m[x]]

Remove(m, k) == [x \in (DOMAIN m) \ {k} |-> m[x]]

(***************************************************************************)
(* Position and Range.                                                     *)
(***************************************************************************)
Pos(l, c) == [line |-> l, column |-> c]

Rng(l, c1, c2) == [start |-> Pos(l, c1), end |-> Pos(l, c2)]

PosLeq(p, q) == p.line < q.line \/ (p.line = q.line /\ p.column <= q.column)

Contains(range, pos) == PosLeq(range.start, pos) /\ PosLeq(pos, range.end)

(***************************************************************************)
(* Token widths (TokenKind::len).                                          *)
(***************************************************************************)
LenInclude == 7
LenStruct == 6
LenConst == 5

LenLiteral(s) == Len(s) + 2

LenIdentifier(s) == Len(s)

(***************************************************************************)
(* Paths (path_parent, PathBuf::join, Path::file_stem).                    *)
(***************************************************************************)
LastIndexOf(s, ch) ==
  LET idx == {i \in 1..Len(s) : s[i] = ch}
  IN IF idx = {} THEN 0 ELSE CHOOSE i \in idx : \A j \in idx : j <= i

FirstIndexOf(s, ch) ==
  LET idx == {i \in 1..Len(s) : s[i] = ch}
  IN IF idx = {} THEN 0 ELSE CHOOSE i \in idx : \A j \in idx : i <= j

\* The directory part of a path; the empty text for a bare file name.
path_parent(path) ==
  LET i == LastIndexOf(path, Slash)
  IN IF i = 0 THEN <<>> ELSE SubSeq(path, 1, i - 1)

\* parent.join(literal) for a relative literal.
Join(parent, literal) ==
  IF parent = <<>> THEN literal ELSE parent \o <<Slash>> \o literal

\* The file name without its directory and without its last extension.
file_stem(path) ==
  LET name == SubSeq(path, LastIndexOf(path, Slash) + 1, Len(path))
      d == LastIndexOf(name, Dot)
  IN IF d <= 1 THEN name ELSE SubSeq(name, 1, d - 1)

(***************************************************************************)
(* The text of a document: the characters of its lines, each line ended by *)
(* a line feed.                                                            *)
(***************************************************************************)
RECURSIVE Flatten(_, _)
Flatten(seqs, i) ==
  IF i > Len(seqs) THEN <<>> ELSE seqs[i] \o Flatten(seqs, i + 1)

LF == "\n"

KwInclude == <<"i", "n", "c", "l", "u", "d", "e">>
KwStruct == <<"s", "t", "r", "u", "c", "t">>
KwConst == <<"c", "o", "n", "s", "t">>

LineText(line) ==
  CASE line.stmt = "include" -> KwInclude \o <<" ", "\"">> \o line.arg \o <<"\"">>
    [] line.stmt = "struct" -> KwStruct \o <<" ">> \o line.arg \o <<" ", "{", "}">>
    [] line.stmt = "const" ->
         KwConst \o <<" ">> \o line.arg \o <<" ">> \o NameK \o <<" ", "=", " ", "1">>
    [] line.stmt = "line" -> line.arg

Text(content) ==
  Flatten([i \in 1..Len(content) |-> LineText(content[i]) \o <<LF>>], 1)

(***************************************************************************)
(* Tokens (token.rs).                                                      *)
(***************************************************************************)
IdentifierNode(range, name) == [kind |-> "Identifier", range |-> range, name |-> name]


(***************************************************************************)
(* Token and TokenKind (token.rs).  A token is its kind, the text the kind *)
(* carries (empty for a keyword or a punctuation mark) and its position.   *)
(***************************************************************************)
Letters ==
  {"a", "b", "c", "d", "e", "f", "g", "h", "i", "j", "k", "l", "m", "n", "o", "p",
   "q", "r", "s", "t", "u", "v", "w", "x", "y", "z",
   "A", "B", "C", "D", "E", "F", "G", "H", "I", "J", "K", "L", "M", "N", "O", "P",
   "Q", "R", "S", "T", "U", "V", "W", "X", "Y", "Z"}

Digits == {"0", "1", "2", "3", "4", "5", "6", "7", "8", "9"}

\* The keywords of TokenKind::from_string with their kinds.
KeywordKinds ==
  (<<"i", "n", "c", "l", "u", "d", "e">> :> "Include")
  @@ (<<"c", "p", "p", "_", "i", "n", "c", "l", "u", "d", "e">> :> "CppInclude")
  @@ (<<"n", "a", "m", "e", "s", "p", "a", "c", "e">> :> "Namespace")
  @@ (<<"c", "o", "n", "s", "t">> :> "Const")
  @@ (<<"t", "y", "p", "e", "d", "e", "f">> :> "Typedef")
  @@ (<<"e", "n", "u", "m">> :> "Enum")
  @@ (<<"s", "t", "r", "u", "c", "t">> :> "Struct")
  @@ (<<"u", "n", "i", "o", "n">> :> "Union")
  @@ (<<"e", "x", "c", "e", "p", "t", "i", "o", "n">> :> "Exception")
  @@ (<<"s", "e", "r", "v", "i", "c", "e">> :> "Service")
  @@ (<<"r", "e", "q", "u", "i", "r", "e", "d">> :> "Required")
  @@ (<<"o", "p", "t", "i", "o", "n", "a", "l">> :> "Optional")
  @@ (<<"o", "n", "e", "w", "a", "y">> :> "Oneway")
  @@ (<<"v", "o", "i", "d">> :> "Void")
  @@ (<<"t", "h", "r", "o", "w", "s">> :> "Throws")
  @@ (<<"e", "x", "t", "e", "n", "d", "s">> :> "Extends")
  @@ (<<"m", "a", "p">> :> "Map")
  @@ (<<"s", "e", "t">> :> "Set")
  @@ (<<"l", "i", "s", "t">> :> "List")
  @@ (<<"c", "p", "p", "_", "t", "y", "p", "e">> :> "CppType")

NamespaceScopes ==
  {<<"c", "_", "g", "l", "i", "b">>,
   <<"c", "p", "p">>,
   <<"d", "e", "l", "p", "h", "i">>,
   <<"h", "a", "x", "e">>,
   <<"g", "o">>,
   <<"j", "a", "v", "a">>,
   <<"j", "s">>,
   <<"l", "u", "a">>,
   <<"n", "e", "t", "s", "t", "d">>,
   <<"p", "e", "r", "l">>,
   <<"p", "h", "p">>,
   <<"p", "y">>,
   <<"p", "y", ".", "t", "w", "i", "s", "t", "e", "d">>,
   <<"r", "b">>,
   <<"s", "t">>,
   <<"x", "s", "d">>,
   <<"r", "s">>}

BaseTypes ==
  {<<"b", "o", "o", "l">>,
   <<"b", "y", "t", "e">>,
   <<"i", "8">>,
   <<"i", "1", "6">>,
   <<"i", "3", "2">>,
   <<"i", "6", "4">>,
   <<"d", "o", "u", "b", "l", "e">>,
   <<"s", "t", "r", "i", "n", "g">>,
   <<"b", "i", "n", "a", "r", "y">>,
   <<"u", "u", "i", "d">>}

NoKind == [some |-> FALSE]

from_string(s) ==
  IF s \in DOMAIN KeywordKinds
  THEN [some |-> TRUE, kind |-> KeywordKinds[s], value |-> <<>>]
  ELSE IF s \in NamespaceScopes
  THEN [some |-> TRUE, kind |-> "NamespaceScope", value |-> s]
  ELSE IF s \in BaseTypes
  THEN [some |-> TRUE, kind |-> "BaseType", value |-> s]
  ELSE NoKind

from_char(c) ==
  CASE c = "=" -> [some |-> TRUE, kind |-> "Assign", value |-> <<>>]
    [] c = ":" -> [some |-> TRUE, kind |-> "Colon", value |-> <<>>]
    [] c = "<" -> [some |-> TRUE, kind |-> "Less", value |-> <<>>]
    [] c = ">" -> [some |-> TRUE, kind |-> "Greater", value |-> <<>>]
    [] c = "," -> [some |-> TRUE, kind |-> "ListSeparator", value |-> <<c>>]
    [] c = ";" -> [some |-> TRUE, kind |-> "ListSeparator", value |-> <<c>>]
    [] c = "(" -> [some |-> TRUE, kind |-> "Lparen", value |-> <<>>]
    [] c = ")" -> [some |-> TRUE, kind |-> "Rparen", value |-> <<>>]
    [] c = "{" -> [some |-> TRUE, kind |-> "Lbrace", value |-> <<>>]
    [] c = "}" -> [some |-> TRUE, kind |-> "Rbrace", value |-> <<>>]
    [] c = "[" -> [some |-> TRUE, kind |-> "Lbrack", value |-> <<>>]
    [] c = "]" -> [some |-> TRUE, kind |-> "Rbrack", value |-> <<>>]
    [] c = "*" -> [some |-> TRUE, kind |-> "NamespaceScope", value |-> <<c>>]
    [] OTHER -> NoKind

\* TokenKind::len
TokenLen(kind, value) ==
  CASE kind = "Include" -> LenInclude
    [] kind = "CppInclude" -> 11
    [] kind = "Namespace" -> 9
    [] kind = "Const" -> LenConst
    [] kind = "Typedef" -> 7
    [] kind = "Enum" -> 4
    [] kind = "Struct" -> LenStruct
    [] kind = "Union" -> 5
    [] kind = "Exception" -> 9
    [] kind = "Service" -> 7
    [] kind = "Required" -> 8
    [] kind = "Optional" -> 8
    [] kind = "Oneway" -> 6
    [] kind = "Void" -> 4
    [] kind = "Throws" -> 6
    [] kind = "Extends" -> 7
    [] kind = "Map" -> 3
    [] kind = "Set" -> 3
    [] kind = "List" -> 4
    [] kind = "CppType" -> 8
    [] kind \in {"Assign", "Colon", "Less", "Greater", "Lparen", "Rparen",
                 "Lbrace", "Rbrace", "Lbrack", "Rbrack"} -> 1
    [] kind = "Comment" -> Len(value) + 2
    [] kind = "BlockComment" -> Len(value) + 4
    [] kind = "PoundComment" -> Len(value) + 1
    [] kind = "Literal" -> LenLiteral(value)
    [] kind = "Identifier" -> LenIdentifier(value)
    [] kind \in {"IntConstant", "DoubleConstant", "NamespaceScope", "BaseType",
                 "InvalidString"} -> Len(value)
    [] kind \in {"ListSeparator", "Invalid"} -> 1
    [] kind = "Eof" -> 0

\* The text of the keyword of a kind (the inverse of KeywordKinds).
KeywordText(kind) == CHOOSE s \in DOMAIN KeywordKinds : KeywordKinds[s] = kind

\* Display for TokenKind.
TokenToString(kind, value) ==
  CASE kind \in {KeywordKinds[s] : s \in DOMAIN KeywordKinds} -> KeywordText(kind)
    [] kind = "Assign" -> <<"=">>
    [] kind = "Colon" -> <<":">>
    [] kind = "Less" -> <<"<">>
    [] kind = "Greater" -> <<">">>
    [] kind = "Lparen" -> <<"(">>
    [] kind = "Rparen" -> <<")">>
    [] kind = "Lbrace" -> <<"{">>
    [] kind = "Rbrace" -> <<"}">>
    [] kind = "Lbrack" -> <<"[">>
    [] kind = "Rbrack" -> <<"]">>
    [] kind = "Comment" -> <<"/", "/">> \o value
    [] kind = "BlockComment" -> <<"/", "*">> \o value \o <<"*", "/">>
    [] kind = "PoundComment" -> <<"#">> \o value
    [] kind = "Eof" -> <<"<", "E", "O", "F", ">">>
    [] OTHER -> value

\* A token: its kind with the value the kind carries, and its position.  The
\* record also holds kind.len() and the Display text of the kind, which are
\* functions of the kind and its value.
MakeToken(kind, value, state) ==
  [kind |-> kind, value |-> value, position |-> Pos(state.line, state.column),
   len |-> TokenLen(kind, value), text |-> TokenToString(kind, value)]

\* Token::range
TokenRange(token) ==
  [start |-> token.position,
   end |-> Pos(token.position.line, token.position.column + token.len)]

is_eof(token) == token.kind = "Eof"

is_comment(token) == token.kind \in {"Comment", "BlockComment", "PoundComment"}

is_line_separator(token) == token.kind = "ListSeparator"

(***************************************************************************)
(* Scanner (scanner.rs).  The input is a sequence of characters; a scanner *)
(* state is the zero-based offset of the next character with the line and  *)
(* the column of that character.  A slice input[a..b] with a > b or with   *)
(* b beyond the input panics.                                              *)
(***************************************************************************)
NewScannerState == [offset |-> 0, line |-> 1, column |-> 1]

\* input[o]
At(input, o) == input[o + 1]

SliceOk(input, a, b) == a <= b /\ b <= Len(input)

\* input[a..b]
Slice(input, a, b) == SubSeq(input, a + 1, b)

\* The number of characters of `chars` in a row from offset o on.
RECURSIVE Run(_, _, _)
Run(input, o, chars) ==
  IF o < Len(input) /\ At(input, o) \in chars THEN 1 + Run(input, o + 1, chars)
  ELSE 0

scan_identifier(input, o) == 1 + Run(input, o + 1, Letters \cup Digits \cup {"_", "."})

RECURSIVE LiteralLoop(_, _, _, _, _, _, _)
LiteralLoop(input, o, delimiter, offset, line_offset, column_offset, prev_ch) ==
  IF o + offset >= Len(input)
  THEN [offset |-> offset, line_offset |-> line_offset,
        column_offset |-> column_offset, ok |-> FALSE]
  ELSE LET ch == At(input, o + offset)
       IN IF ch = delimiter /\ prev_ch # "\\"
          THEN [offset |-> offset + 1, line_offset |-> line_offset,
                column_offset |-> column_offset + 1, ok |-> TRUE]
          ELSE IF ch = "\n"
          THEN LiteralLoop(input, o, delimiter, offset + 1, line_offset + 1, 1, ch)
          ELSE IF ch = "\r"
          THEN LiteralLoop(input, o, delimiter,
                           IF o + offset + 1 < Len(input)
                              /\ At(input, o + offset + 1) = "\n"
                           THEN offset + 2 ELSE offset + 1,
                           line_offset + 1, 1, ch)
          ELSE LiteralLoop(input, o, delimiter, offset + 1, line_offset,
                           column_offset + 1, ch)

scan_literal(input, o, delimiter) == LiteralLoop(input, o, delimiter, 1, 0, 1, delimiter)

scan_int_constant(input, o) ==
  IF At(input, o) \notin Digits \cup {"+", "-"} THEN [offset |-> 0, ok |-> FALSE]
  ELSE LET offset == 1 + Run(input, o + 1, Digits)
       IN [offset |-> offset,
           ok |-> offset > 1 \/ At(input, o) \notin {"+", "-"}]

RECURSIVE DoubleLoop(_, _, _, _)
DoubleLoop(input, o, state, offset) ==
  IF o + offset >= Len(input) THEN offset
  ELSE LET ch == At(input, o + offset)
       IN CASE state = "ParsePlusMinus" ->
                 DoubleLoop(input, o, "ParseFirstDigits",
                            IF ch \in {"+", "-"} THEN offset + 1 ELSE offset)
            [] state = "ParseFirstDigits" ->
                 IF ch \in Digits THEN DoubleLoop(input, o, state, offset + 1)
                 ELSE DoubleLoop(input, o, "ParseDot", offset)
            [] state = "ParseDot" ->
                 DoubleLoop(input, o, "ParseSecondDigits",
                            IF ch = "." THEN offset + 1 ELSE offset)
            [] state = "ParseSecondDigits" ->
                 IF ch \in Digits THEN DoubleLoop(input, o, state, offset + 1)
                 ELSE DoubleLoop(input, o, "ParseE", offset)
            [] state = "ParseE" ->
                 DoubleLoop(input, o, "PraseIntConstant",
                            IF ch \in {"e", "E"} THEN offset + 1 ELSE offset)
            [] state = "PraseIntConstant" ->
                 LET r == scan_int_constant(input, o + offset)
                 IN IF r.ok THEN offset + r.offset ELSE offset

scan_double_constant(input, o) ==
  IF At(input, o) \notin Digits \cup {"+", "-", ".", "e", "E"}
  THEN [offset |-> 0, ok |-> FALSE]
  ELSE LET offset == DoubleLoop(input, o, "ParsePlusMinus", 0)
       IN [offset |-> offset,
           ok |-> \E i \in 0..(offset - 1) : At(input, o + i) \in Digits]

\* The offset just after the first line feed at or after offset o, the
\* length of the input when there is none.
AfterLineFeed(input, o) ==
  LET at == {i \in o..(Len(input) - 1) : At(input, i) = "\n"}
  IN IF at = {} THEN Len(input)
     ELSE (CHOOSE i \in at : \A j \in at : i <= j) + 1

scan_line_comment(input, o) ==
  IF o + 1 >= Len(input) \/ At(input, o + 1) # "/" THEN [offset |-> 1, ok |-> FALSE]
  ELSE [offset |-> AfterLineFeed(input, o + 2) - o, ok |-> TRUE]

RECURSIVE scan_block_comment(_, _), BlockCommentLoop(_, _, _, _, _)
scan_block_comment(input, o) ==
  IF o + 1 >= Len(input) \/ At(input, o + 1) # "*"
  THEN [offset |-> 1, line_offset |-> 0, column_offset |-> 1, ok |-> FALSE]
  ELSE BlockCommentLoop(input, o, 2, 0, 2)

BlockCommentLoop(input, o, offset, line_offset, column_offset) ==
  IF o + offset >= Len(input)
  THEN [offset |-> offset, line_offset |-> line_offset,
        column_offset |-> column_offset, ok |-> TRUE]
  ELSE LET ch == At(input, o + offset)
           off == IF ch = "\r" /\ o + offset + 1 < Len(input)
                     /\ At(input, o + offset + 1) = "\n"
                  THEN offset + 2 ELSE offset + 1
           lines == IF ch \in {"\n", "\r"} THEN line_offset + 1 ELSE line_offset
           cols == IF ch \in {"\n", "\r"} THEN 1 ELSE column_offset + 1
       IN IF o + off >= Len(input)
          THEN [offset |-> off, line_offset |-> lines, column_offset |-> cols,
                ok |-> FALSE]
          ELSE LET next_ch == At(input, o + off)
               IN IF ch = "*" /\ next_ch = "/"
                  THEN [offset |-> off + 1, line_offset |-> lines,
                        column_offset |-> cols + 1, ok |-> TRUE]
                  ELSE IF ch = "/" /\ next_ch = "*"
                  THEN LET nested == scan_block_comment(input, o + off - 1)
                           off3 == off + nested.offset - 1
                           lines3 == lines + nested.line_offset
                           cols3 == cols + nested.column_offset
                       IN IF ~nested.ok
                          THEN [offset |-> off3, line_offset |-> lines3,
                                column_offset |-> cols3, ok |-> FALSE]
                          ELSE BlockCommentLoop(input, o, off3, lines3, cols3)
                  ELSE BlockCommentLoop(input, o, off, lines, cols)

scan_pound_comment(input, o) ==
  LET ends == {i \in (o + 1)..(Len(input) - 1) : At(input, i) \in {"\n", "\r"}}
  IN IF ends = {} THEN Len(input) - o
     ELSE LET i == CHOOSE i \in ends : \A j \in ends : i <= j
          IN IF At(input, i) = "\r" /\ i + 1 < Len(input) /\ At(input, i + 1) = "\n"
             THEN i + 2 - o ELSE i + 1 - o

NoError == [some |-> FALSE]

Scanned(token, err, state) ==
  [token |-> token, err |-> err, state |-> state, panic |-> FALSE]

\* A scan that panics returns nothing: the thread of the caller unwinds.
ScanPanic(state) ==
  [token |-> MakeToken("Eof", <<>>, state), err |-> NoError, state |-> state,
   panic |-> TRUE]

Advance(state, offset) ==
  [state EXCEPT !.offset = @ + offset, !.column = @ + offset]

AdvanceLines(state, offset, line_offset, column_offset) ==
  [offset |-> state.offset + offset,
   line |-> state.line + line_offset,
   column |-> (IF line_offset > 0 THEN 0 ELSE state.column) + column_offset]

NextLine(state, offset) ==
  [offset |-> state.offset + offset, line |-> state.line + 1, column |-> 1]

\* The arm '/' of scan.
ScanSlash(input, state) ==
  LET start == state.offset
      line_comment == scan_line_comment(input, start)
      block == scan_block_comment(input, start)
  IN IF start + 1 >= Len(input)
     THEN Scanned(MakeToken("Invalid", <<"/">>, state), NoError, Advance(state, 1))
     ELSE IF line_comment.ok
     THEN Scanned(MakeToken("Comment",
                            Slice(input, start + 2, start + line_comment.offset),
                            state),
                  NoError, NextLine(state, line_comment.offset))
     ELSE IF block.ok
     THEN IF ~SliceOk(input, start + 2, start + block.offset - 2)
          THEN ScanPanic(state)
          ELSE Scanned(MakeToken("BlockComment",
                                 Slice(input, start + 2, start + block.offset - 2),
                                 state),
                       NoError,
                       AdvanceLines(state, block.offset, block.line_offset,
                                    block.column_offset))
     ELSE IF ~SliceOk(input, start, start + block.offset) THEN ScanPanic(state)
     ELSE LET value == Slice(input, start, start + block.offset)
              tk == MakeToken("InvalidString", value, state)
          IN Scanned(tk,
                     [some |-> TRUE, range |-> TokenRange(tk),
                      message |-> <<"Unclosed block comment: ", value>>],
                     AdvanceLines(state, block.offset, block.line_offset,
                                  block.column_offset))

\* The arm '#' of scan.
ScanPound(input, state) ==
  LET offset == scan_pound_comment(input, state.offset)
  IN Scanned(MakeToken("PoundComment",
                       Slice(input, state.offset, state.offset + offset), state),
             NoError, NextLine(state, offset))

\* The arm of a letter or '_' of scan.
ScanWord(input, state) ==
  LET offset == scan_identifier(input, state.offset)
      value == Slice(input, state.offset, state.offset + offset)
      tok == from_string(value)
  IN Scanned(IF tok.some THEN MakeToken(tok.kind, tok.value, state)
             ELSE MakeToken("Identifier", value, state),
             NoError, Advance(state, offset))

\* The arm of a quote of scan.
ScanQuote(input, state, ch) ==
  LET start == state.offset
      r == scan_literal(input, start, ch)
  IN IF ~SliceOk(input, start + 1, start + r.offset - 1) THEN ScanPanic(state)
     ELSE LET value == Slice(input, start + 1, start + r.offset - 1)
              tk == MakeToken("InvalidString", value, state)
              after == AdvanceLines(state, r.offset, r.line_offset, r.column_offset)
          IN IF r.ok
             THEN Scanned(MakeToken("Literal", value, state), NoError, after)
             ELSE Scanned(tk,
                          [some |-> TRUE, range |-> TokenRange(tk),
                           message |-> <<"Unclosed string: ", value>>],
                          after)

\* The arm of a sign or a digit of scan.
ScanNumber(input, state) ==
  LET start == state.offset
      int == scan_int_constant(input, start)
      double == scan_double_constant(input, start)
      retry == /\ int.ok
               /\ start + int.offset < Len(input)
               /\ At(input, start + int.offset) \in {".", "e", "E"}
      offset == IF ~int.ok \/ retry THEN double.offset ELSE int.offset
      double_ok == (~int.ok \/ retry) /\ double.ok
      int_ok == int.ok /\ ~(retry /\ double.ok)
      value == Slice(input, start, start + offset)
  IN Scanned(MakeToken(IF int_ok THEN "IntConstant"
                       ELSE IF double_ok THEN "DoubleConstant"
                       ELSE "InvalidString",
                       value, state),
             NoError, Advance(state, offset))

\* The arm '.' of scan.
ScanDot(input, state) ==
  LET r == scan_double_constant(input, state.offset)
      value == Slice(input, state.offset, state.offset + r.offset)
  IN Scanned(MakeToken(IF r.ok THEN "DoubleConstant" ELSE "InvalidString",
                       value, state),
             NoError, Advance(state, r.offset))

\* The last arm of scan: a punctuation mark or an invalid character.
ScanChar(input, state, ch) ==
  LET tok == from_char(ch)
  IN Scanned(IF tok.some THEN MakeToken(tok.kind, tok.value, state)
             ELSE MakeToken("Invalid", <<ch>>, state),
             NoError, Advance(state, 1))

eof(state) == MakeToken("Eof", <<>>, state)

\* Scanner::scan: the next token, the error of that token if any, and the
\* state after it.
RECURSIVE scan(_, _)
scan(input, state) ==
  IF state.offset >= Len(input) THEN Scanned(eof(state), NoError, state)
  ELSE LET ch == At(input, state.offset)
       IN CASE ch = "\n" -> scan(input, NextLine(state, 1))
            [] ch = "\r" ->
                 scan(input,
                      NextLine(state,
                               IF state.offset + 1 < Len(input)
                                  /\ At(input, state.offset + 1) = "\n"
                               THEN 2 ELSE 1))
            [] ch \in {" ", "\t"} -> scan(input, Advance(state, 1))
            [] ch = "/" -> ScanSlash(input, state)
            [] ch = "#" -> ScanPound(input, state)
            [] ch \in Letters \cup {"_"} -> ScanWord(input, state)
            [] ch \in {"'", "\""} -> ScanQuote(input, state, ch)
            [] ch \in Digits \cup {"+", "-"} -> ScanNumber(input, state)
            [] ch = "." -> ScanDot(input, state)
            [] OTHER -> ScanChar(input, state, ch)

\* Scanner::skip_to_next_line
skip_to_next_line(input, state) ==
  LET ends == {i \in state.offset..(Len(input) - 1) : At(input, i) \in {"\n", "\r"}}
  IN IF ends = {} THEN [state EXCEPT !.offset = Len(input)]
     ELSE LET i == CHOOSE i \in ends : \A j \in ends : i <= j
          IN [offset |-> IF At(input, i) = "\r" /\ i + 1 < Len(input)
                            /\ At(input, i + 1) = "\n"
                         THEN i + 2 ELSE i + 1,
              line |-> state.line + 1,
              column |-> 1]

(***************************************************************************)
(* Parser (parser.rs, macros.rs).  A parser value `p` is the input, the    *)
(* state of its scanner, the errors so far and the previous token; `panic` *)
(* tells that a scan panicked, after which every scan finds the end of the *)
(* input and the result of the parse is never returned.  A parse function  *)
(* returns the parser after it, `ok` (Some or None) and the node.          *)
(***************************************************************************)
RECURSIVE Parser(_, _)

NewParser(input) ==
  [input |-> input, state |-> NewScannerState, errors |-> <<>>,
   prev_token |-> [some |-> FALSE], panic |-> FALSE]

add_error(p, message, range) ==
  [p EXCEPT !.errors = Append(@, [range |-> range, message |-> message])]

\* The scan of the parser: the end of the input once a scan has panicked.
ParserScan(p) ==
  IF p.panic THEN Scanned(eof(p.state), NoError, p.state) ELSE scan(p.input, p.state)

skip_comment_tokens(p) ==
  LET r == Parser("scan", p)
  IN IF r.panic THEN [p EXCEPT !.panic = TRUE]
     ELSE IF is_comment(r.token) THEN Parser("skip_comment_tokens", [p EXCEPT !.state = r.state])
     ELSE p

next_token(p) ==
  LET q == Parser("skip_comment_tokens", p)
      r == Parser("scan", q)
      q1 == IF r.err.some THEN add_error(q, r.err.message, r.err.range) ELSE q
  IN IF r.panic
     THEN [p |-> [q EXCEPT !.panic = TRUE], token |-> eof(q.state)]
     ELSE [p |-> [q1 EXCEPT !.state = r.state,
                            !.prev_token = [some |-> TRUE, token |-> r.token]],
           token |-> r.token]

peek_next_token(p) ==
  LET q == Parser("skip_comment_tokens", p)
      r == Parser("scan", q)
  IN IF r.panic
     THEN [p |-> [q EXCEPT !.panic = TRUE], token |-> eof(q.state)]
     ELSE [p |-> q, token |-> r.token]

eat_next_token(p) == Parser("next_token", p).p

\* Token::default(): the end-of-file kind at the default position.
DefaultToken == MakeToken("Eof", <<>>, [line |-> 1, column |-> 1])

\* self.prev_token().unwrap_or_default().range().end
PrevEnd(p) ==
  TokenRange(IF p.prev_token.some THEN p.prev_token.token ELSE DefaultToken).end

\* self.Parser("peek_next_token", ).range().start, with the parser after the peek.
PeekStart(p) ==
  LET pk == Parser("peek_next_token", p)
  IN [p |-> pk.p, start |-> TokenRange(pk.token).start]

None(p) == [p |-> p, ok |-> FALSE]

Some(p, node) == [p |-> p, ok |-> TRUE, node |-> node]

Absent == [some |-> FALSE]

Present(node) == [some |-> TRUE, node |-> node]

TokenText(token) == token.text

\* expect_token! and expect!: the next token must be of the kind (and, for a
\* list separator, be the given character).
expect_token(p, kind, value, expected_str) ==
  LET t == Parser("next_token", p)
  IN IF t.token.kind # kind \/ (kind = "ListSeparator" /\ t.token.value # value)
     THEN None(add_error(t.p,
                         <<"Expected ", expected_str, ", but got ", TokenText(t.token)>>,
                         TokenRange(t.token)))
     ELSE [p |-> t.p, ok |-> TRUE]

\* extract_token_value!
extract_token_value(p, token, kind, expected_str) ==
  IF token.kind = kind THEN [p |-> p, ok |-> TRUE, value |-> token.value]
  ELSE None(add_error(p,
                      <<"Expected ", expected_str, ", but got ", TokenText(token)>>,
                      TokenRange(token)))

\* opt_list_separator! that leaves the separator where it is.
opt_list_separator_Keeps(p) == p

\* opt_list_separator!
opt_list_separator(p) ==
  LET pk == Parser("peek_next_token", p)
  IN IF is_line_separator(pk.token) THEN Parser("eat_next_token", pk.p) ELSE pk.p

\* break_opt_token_or_eof!: whether the loop ends, and the parser then.
break_opt_token_or_eof(p, kind) ==
  LET pk == Parser("peek_next_token", p)
  IN IF pk.token.kind = kind THEN [p |-> Parser("eat_next_token", pk.p), break |-> TRUE]
     ELSE IF is_eof(pk.token)
     THEN [p |-> add_error(pk.p, <<"Unexpected end of file">>, TokenRange(pk.token)),
           break |-> TRUE]
     ELSE [p |-> pk.p, break |-> FALSE]

recover_to_next_line(p) ==
  IF p.panic THEN p ELSE [p EXCEPT !.state = skip_to_next_line(p.input, p.state)]

DefinitionKinds ==
  {"Const", "Typedef", "Enum", "Struct", "Union", "Exception", "Service"}

\* One iteration of the loop of recover_to_next_definition that takes the
\* token it has looked at as the previous token and leaves the scanner
\* where it is.
RecoverIteration_Peeks(p) ==
  LET pk == Parser("peek_next_token", p)
  IN IF is_eof(pk.token) \/ pk.token.kind \in DefinitionKinds
     THEN [p |-> pk.p, break |-> TRUE]
     ELSE [p |-> [pk.p EXCEPT !.prev_token = [some |-> TRUE, token |-> pk.token]],
           break |-> FALSE]

\* One iteration of the loop of recover_to_next_definition: whether the loop
\* ends, and the parser then.
RecoverIteration(p) ==
  LET pk == Parser("peek_next_token", p)
  IN IF is_eof(pk.token) \/ pk.token.kind \in DefinitionKinds
     THEN [p |-> pk.p, break |-> TRUE]
     ELSE [p |-> Parser("eat_next_token", pk.p), break |-> FALSE]

\* loop { ... }: the loop goes on from the parser an iteration leaves.
RECURSIVE RecoverLoop(_)
RecoverLoop(it) ==
  IF it.break THEN it.p ELSE RecoverLoop(RecoverIteration(it.p))

recover_to_next_definition(p) == RecoverLoop(RecoverIteration(p))

(***************************************************************************)
(* Headers.                                                                *)
(***************************************************************************)
parse_include(p) ==
  LET s == PeekStart(p)
      e == expect_token(s.p, "Include", <<>>, "'include'")
      t == Parser("next_token", e.p)
      literal == extract_token_value(t.p, t.token, "Literal", "literal")
  IN IF ~e.ok THEN None(e.p)
     ELSE IF ~literal.ok THEN None(literal.p)
     ELSE Some(literal.p,
               [kind |-> "Include",
                range |-> [start |-> s.start, end |-> PrevEnd(literal.p)],
                literal |-> literal.value])

parse_cpp_include(p) ==
  LET s == PeekStart(p)
      e == expect_token(s.p, "CppInclude", <<>>, "'cpp_include'")
      t == Parser("next_token", e.p)
      literal == extract_token_value(t.p, t.token, "Literal", "literal")
  IN IF ~e.ok THEN None(e.p)
     ELSE IF ~literal.ok THEN None(literal.p)
     ELSE Some(literal.p,
               [kind |-> "CppInclude",
                range |-> [start |-> s.start, end |-> PrevEnd(literal.p)],
                literal |-> literal.value])

parse_identifier(p) ==
  LET t == Parser("next_token", p)
      name == TokenText(t.token)
  IN IF t.token.kind = "Identifier"
     THEN Some(t.p, IdentifierNode(TokenRange(t.token), t.token.value))
     ELSE IF ~from_string(name).some
     THEN None(add_error(t.p, <<"Invalid identifier: ", name>>, TokenRange(t.token)))
     ELSE Some(t.p, IdentifierNode(TokenRange(t.token), name))

parse_key_value_pair(p) ==
  LET t == Parser("next_token", p)
      key == extract_token_value(t.p, t.token, "Identifier", "identifier")
      e == expect_token(key.p, "Assign", <<>>, "'='")
      u == Parser("next_token", e.p)
      value == extract_token_value(u.p, u.token, "Literal", "literal")
  IN IF ~key.ok THEN None(key.p)
     ELSE IF ~e.ok THEN None(e.p)
     ELSE IF ~value.ok THEN None(value.p)
     ELSE Some(opt_list_separator(value.p), <<key.value, value.value>>)

RECURSIVE KeyValuePairs(_, _)
KeyValuePairs(p, kv_pairs) ==
  LET b == break_opt_token_or_eof(p, "Rparen")
      pair == Parser("parse_key_value_pair", b.p)
  IN IF b.break THEN Some(b.p, kv_pairs)
     ELSE IF ~pair.ok THEN None(pair.p)
     ELSE KeyValuePairs(pair.p, Append(kv_pairs, pair.node))

\* [p, ext]: the parser after it and the optional node.
opt_parse_ext(p) ==
  LET s == PeekStart(p)
      pk == Parser("peek_next_token", s.p)
      e == expect_token(pk.p, "Lparen", <<>>, "'('")
      pairs == KeyValuePairs(e.p, <<>>)
  IN IF pk.token.kind # "Lparen" THEN [p |-> pk.p, ext |-> Absent]
     ELSE IF ~e.ok THEN [p |-> e.p, ext |-> Absent]
     ELSE IF ~pairs.ok THEN [p |-> pairs.p, ext |-> Absent]
     ELSE [p |-> pairs.p,
           ext |-> Present([kind |-> "Ext",
                            range |-> [start |-> s.start, end |-> PrevEnd(pairs.p)],
                            kv_pairs |-> pairs.node])]

parse_namespace(p) ==
  LET s == PeekStart(p)
      e == expect_token(s.p, "Namespace", <<>>, "'namespace'")
      t == Parser("next_token", e.p)
      scope == extract_token_value(t.p, t.token, "NamespaceScope", "namespace scope")
      identifier == Parser("parse_identifier", scope.p)
      x == Parser("opt_parse_ext", identifier.p)
  IN IF ~e.ok THEN None(e.p)
     ELSE IF ~scope.ok THEN None(scope.p)
     ELSE IF ~identifier.ok THEN None(identifier.p)
     ELSE Some(x.p,
               [kind |-> "Namespace",
                range |-> [start |-> s.start, end |-> PrevEnd(x.p)],
                scope |-> scope.value, identifier |-> identifier.node, ext |-> x.ext])

\* parse_header!, one iteration of the loop of parse_headers: whether the
\* loop ends, the parser then, and the header if one was parsed.
parse_header(p) ==
  LET pk == Parser("peek_next_token", p)
      r == CASE pk.token.kind = "Include" -> Parser("parse_include", pk.p)
             [] pk.token.kind = "CppInclude" -> Parser("parse_cpp_include", pk.p)
             [] pk.token.kind = "Namespace" -> Parser("parse_namespace", pk.p)
  IN IF pk.token.kind \notin {"Include", "CppInclude", "Namespace"}
     THEN [p |-> pk.p, break |-> TRUE, ok |-> FALSE]
     ELSE IF r.ok THEN [p |-> r.p, break |-> FALSE, ok |-> TRUE, node |-> r.node]
     ELSE [p |-> Parser("recover_to_next_line", r.p), break |-> FALSE, ok |-> FALSE]

\* loop { parse_header!(...) }: the loop goes on from the parser an
\* iteration leaves, with the header it parsed.
RECURSIVE HeadersLoop(_, _)
HeadersLoop(it, headers) ==
  IF it.break THEN [p |-> it.p, headers |-> headers]
  ELSE HeadersLoop(parse_header(it.p),
                   IF it.ok THEN Append(headers, it.node) ELSE headers)

parse_headers(p, headers) == HeadersLoop(parse_header(p), headers)

(***************************************************************************)
(* Field types.                                                            *)
(***************************************************************************)
\* [p, cpp_type]: the parser after it and the optional name.
opt_parse_cpp_type(p) ==
  LET pk == Parser("peek_next_token", p)
      e == expect_token(pk.p, "CppType", <<>>, "'cpp_type'")
      t == Parser("next_token", e.p)
      name == extract_token_value(t.p, t.token, "Identifier", "identifier")
  IN IF pk.token.kind # "CppType" THEN [p |-> pk.p, cpp_type |-> Absent]
     ELSE IF ~e.ok THEN [p |-> e.p, cpp_type |-> Absent]
     ELSE IF ~name.ok THEN [p |-> name.p, cpp_type |-> Absent]
     ELSE [p |-> name.p, cpp_type |-> Present(name.value)]


parse_field_type(p) ==
  LET pk == Parser("peek_next_token", p)
  IN IF pk.token.kind = "Identifier"
     THEN Some(Parser("eat_next_token", pk.p),
               IdentifierNode(TokenRange(pk.token), pk.token.value))
     ELSE Parser("parse_definition_type", pk.p)

parse_definition_type(p) ==
  LET pk == Parser("peek_next_token", p)
  IN IF pk.token.kind = "BaseType"
     THEN Some(Parser("eat_next_token", pk.p),
               [kind |-> "BaseType", range |-> TokenRange(pk.token),
                name |-> pk.token.value])
     ELSE Parser("parse_container_type", pk.p)

parse_container_type(p) ==
  LET pk == Parser("peek_next_token", p)
  IN CASE pk.token.kind = "Map" -> Parser("parse_map_type", pk.p)
       [] pk.token.kind = "Set" -> Parser("parse_set_type", pk.p)
       [] pk.token.kind = "List" -> Parser("parse_list_type", pk.p)
       [] OTHER ->
            None(add_error(pk.p,
                           <<"Expected map, set, or list, but got ", TokenText(pk.token)>>,
                           TokenRange(pk.token)))

parse_map_type(p) ==
  LET s == PeekStart(p)
      e1 == expect_token(s.p, "Map", <<>>, "'map'")
      c == Parser("opt_parse_cpp_type", e1.p)
      e2 == expect_token(c.p, "Less", <<>>, "'<'")
      key_type == Parser("parse_field_type", e2.p)
      e3 == expect_token(key_type.p, "ListSeparator", <<",">>, "','")
      value_type == Parser("parse_field_type", e3.p)
      e4 == expect_token(value_type.p, "Greater", <<>>, "'>'")
  IN IF ~e1.ok THEN None(e1.p)
     ELSE IF ~e2.ok THEN None(e2.p)
     ELSE IF ~key_type.ok THEN None(key_type.p)
     ELSE IF ~e3.ok THEN None(e3.p)
     ELSE IF ~value_type.ok THEN None(value_type.p)
     ELSE IF ~e4.ok THEN None(e4.p)
     ELSE Some(e4.p,
               [kind |-> "MapType",
                range |-> [start |-> s.start, end |-> PrevEnd(e4.p)],
                cpp_type |-> c.cpp_type,
                key_type |-> key_type.node, value_type |-> value_type.node])

parse_set_type(p) ==
  LET s == PeekStart(p)
      e1 == expect_token(s.p, "Set", <<>>, "'set'")
      c == Parser("opt_parse_cpp_type", e1.p)
      e2 == expect_token(c.p, "Less", <<>>, "'<'")
      type_node == Parser("parse_field_type", e2.p)
      e3 == expect_token(type_node.p, "Greater", <<>>, "'>'")
  IN IF ~e1.ok THEN None(e1.p)
     ELSE IF ~e2.ok THEN None(e2.p)
     ELSE IF ~type_node.ok THEN None(type_node.p)
     ELSE IF ~e3.ok THEN None(e3.p)
     ELSE Some(e3.p,
               [kind |-> "SetType",
                range |-> [start |-> s.start, end |-> PrevEnd(e3.p)],
                cpp_type |-> c.cpp_type, type_node |-> type_node.node])

parse_list_type(p) ==
  LET s == PeekStart(p)
      e1 == expect_token(s.p, "List", <<>>, "'list'")
      c == Parser("opt_parse_cpp_type", e1.p)
      e2 == expect_token(c.p, "Less", <<>>, "'<'")
      type_node == Parser("parse_field_type", e2.p)
      e3 == expect_token(type_node.p, "Greater", <<>>, "'>'")
  IN IF ~e1.ok THEN None(e1.p)
     ELSE IF ~e2.ok THEN None(e2.p)
     ELSE IF ~type_node.ok THEN None(type_node.p)
     ELSE IF ~e3.ok THEN None(e3.p)
     ELSE Some(e3.p,
               [kind |-> "ListType",
                range |-> [start |-> s.start, end |-> PrevEnd(e3.p)],
                cpp_type |-> c.cpp_type, type_node |-> type_node.node])

parse_function_type(p) ==
  LET pk == Parser("peek_next_token", p)
  IN IF pk.token.kind = "Void"
     THEN Some(Parser("eat_next_token", pk.p),
               [kind |-> "BaseType", range |-> TokenRange(pk.token),
                name |-> <<"v", "o", "i", "d">>])
     ELSE Parser("parse_field_type", pk.p)

(***************************************************************************)
(* Constant values.                                                        *)
(***************************************************************************)
\* values.join(sep)
RECURSIVE JoinTexts(_, _)
JoinTexts(texts, sep) ==
  IF texts = <<>> THEN <<>>
  ELSE IF Len(texts) = 1 THEN texts[1]
  ELSE texts[1] \o sep \o JoinTexts(Tail(texts), sep)

ConstValueNode(range, value) == [kind |-> "ConstValue", range |-> range, value |-> value]

RECURSIVE ConstListValues(_, _), ConstMapPairs(_, _)

parse_const_value(p) ==
  LET pk == Parser("peek_next_token", p)
  IN CASE pk.token.kind \in {"IntConstant", "DoubleConstant", "Literal", "Identifier"} ->
            Some(Parser("eat_next_token", pk.p),
                 ConstValueNode(TokenRange(pk.token), pk.token.value))
       [] pk.token.kind = "Lbrack" -> Parser("parse_const_list", pk.p)
       [] pk.token.kind = "Lbrace" -> Parser("parse_const_map", pk.p)
       [] OTHER ->
            None(add_error(Parser("eat_next_token", pk.p),
                           <<"Expected constant value, but got ", TokenText(pk.token)>>,
                           TokenRange(pk.token)))

ConstListValues(p, values) ==
  LET b == break_opt_token_or_eof(p, "Rbrack")
      value == Parser("parse_const_value", b.p)
  IN IF b.break THEN Some(b.p, values)
     ELSE IF ~value.ok THEN None(value.p)
     ELSE ConstListValues(opt_list_separator(value.p), Append(values, value.node.value))

parse_const_list(p) ==
  LET s == PeekStart(p)
      e == expect_token(s.p, "Lbrack", <<>>, "'['")
      values == ConstListValues(e.p, <<>>)
  IN IF ~e.ok THEN None(e.p)
     ELSE IF ~values.ok THEN None(values.p)
     ELSE Some(values.p,
               ConstValueNode([start |-> s.start, end |-> PrevEnd(values.p)],
                              <<"[">> \o JoinTexts(values.node, <<",", " ">>) \o <<"]">>))

parse_const_map_value(p) ==
  LET key == Parser("parse_const_value", p)
      e == expect_token(key.p, "Colon", <<>>, "':'")
      value == Parser("parse_const_value", e.p)
  IN IF ~key.ok THEN None(key.p)
     ELSE IF ~e.ok THEN None(e.p)
     ELSE IF ~value.ok THEN None(value.p)
     ELSE Some(opt_list_separator(value.p), <<key.node.value, value.node.value>>)

ConstMapPairs(p, pairs) ==
  LET b == break_opt_token_or_eof(p, "Rbrace")
      pair == Parser("parse_const_map_value", b.p)
  IN IF b.break THEN Some(b.p, pairs)
     ELSE IF ~pair.ok THEN None(pair.p)
     ELSE ConstMapPairs(pair.p, Append(pairs, pair.node))

parse_const_map(p) ==
  LET s == PeekStart(p)
      e == expect_token(s.p, "Lbrace", <<>>, "'{'")
      pairs == ConstMapPairs(e.p, <<>>)
  IN IF ~e.ok THEN None(e.p)
     ELSE IF ~pairs.ok THEN None(pairs.p)
     ELSE Some(pairs.p,
               ConstValueNode(
                 [start |-> s.start, end |-> PrevEnd(pairs.p)],
                 <<"{">>
                 \o JoinTexts([i \in 1..Len(pairs.node) |->
                                 pairs.node[i][1] \o <<":", " ">> \o pairs.node[i][2]],
                              <<",", " ">>)
                 \o <<"}">>))

(***************************************************************************)
(* str::parse::<i32>().unwrap_or_default(): an optional sign and decimal   *)
(* digits; 0 when the text is no such number or does not fit 32 bits.      *)
(***************************************************************************)
DigitValue(ch) ==
  CHOOSE n \in 0..9 : <<"0", "1", "2", "3", "4", "5", "6", "7", "8", "9">>[n + 1] = ch

RECURSIVE ToNat(_)
ToNat(digits) ==
  IF digits = <<>> THEN 0
  ELSE 10 * ToNat(SubSeq(digits, 1, Len(digits) - 1)) + DigitValue(digits[Len(digits)])

RECURSIVE StripZeros(_)
StripZeros(digits) ==
  IF Len(digits) > 1 /\ digits[1] = "0" THEN StripZeros(Tail(digits)) ELSE digits

parse_i32(text) ==
  LET signed == text # <<>> /\ text[1] \in {"+", "-"}
      negative == text # <<>> /\ text[1] = "-"
      digits == IF signed THEN Tail(text) ELSE text
      ds == StripZeros(digits)
      hi == ToNat(SubSeq(ds, 1, 9))
      lo == DigitValue(ds[10])
  IN IF digits = <<>> \/ \E i \in 1..Len(digits) : digits[i] \notin Digits THEN 0
     ELSE IF Len(ds) > 10 THEN 0
     ELSE IF Len(ds) <= 9 THEN IF negative THEN 0 - ToNat(ds) ELSE ToNat(ds)
     ELSE IF hi > 214748364 \/ (hi = 214748364 /\ lo > (IF negative THEN 8 ELSE 7))
     THEN 0
     ELSE IF negative THEN (0 - hi) * 10 - lo ELSE hi * 10 + lo

(***************************************************************************)
(* Definitions.                                                            *)
(***************************************************************************)
parse_const(p) ==
  LET s == PeekStart(p)
      e1 == expect_token(s.p, "Const", <<>>, "'const'")
      field_type == Parser("parse_field_type", e1.p)
      identifier == Parser("parse_identifier", field_type.p)
      e2 == expect_token(identifier.p, "Assign", <<>>, "'='")
      value == Parser("parse_const_value", e2.p)
      q == opt_list_separator(value.p)
  IN IF ~e1.ok THEN None(e1.p)
     ELSE IF ~field_type.ok THEN None(field_type.p)
     ELSE IF ~identifier.ok THEN None(identifier.p)
     ELSE IF ~e2.ok THEN None(e2.p)
     ELSE IF ~value.ok THEN None(value.p)
     ELSE Some(q, [kind |-> "Const",
                   range |-> [start |-> s.start, end |-> PrevEnd(q)],
                   field_type |-> field_type.node,
                   identifier |-> identifier.node,
                   value |-> value.node])

parse_typedef(p) ==
  LET s == PeekStart(p)
      e == expect_token(s.p, "Typedef", <<>>, "'typedef'")
      definition_type == Parser("parse_definition_type", e.p)
      identifier == Parser("parse_identifier", definition_type.p)
  IN IF ~e.ok THEN None(e.p)
     ELSE IF ~definition_type.ok THEN None(definition_type.p)
     ELSE IF ~identifier.ok THEN None(identifier.p)
     ELSE Some(identifier.p,
               [kind |-> "Typedef",
                range |-> [start |-> s.start, end |-> PrevEnd(identifier.p)],
                definition_type |-> definition_type.node,
                identifier |-> identifier.node])

parse_enum_value(p) ==
  LET s == PeekStart(p)
      t == Parser("next_token", s.p)
      name == extract_token_value(t.p, t.token, "Identifier", "identifier")
      pk == Parser("peek_next_token", name.p)
      u == Parser("next_token", Parser("eat_next_token", pk.p))
      int == extract_token_value(u.p, u.token, "IntConstant", "integer constant")
      assigned == pk.token.kind = "Assign"
      x == Parser("opt_parse_ext", IF assigned THEN int.p ELSE pk.p)
      q == opt_list_separator(x.p)
  IN IF ~name.ok THEN None(name.p)
     ELSE IF assigned /\ ~int.ok THEN None(int.p)
     ELSE Some(q, [kind |-> "EnumValue",
                   range |-> [start |-> s.start, end |-> PrevEnd(q)],
                   name |-> name.value,
                   value |-> IF assigned THEN Present(parse_i32(int.value)) ELSE Absent,
                   ext |-> x.ext])

RECURSIVE EnumValues(_, _)
EnumValues(p, values) ==
  LET b == break_opt_token_or_eof(p, "Rbrace")
      value == Parser("parse_enum_value", b.p)
  IN IF b.break THEN [p |-> b.p, values |-> values]
     ELSE IF value.ok THEN EnumValues(value.p, Append(values, value.node))
     ELSE EnumValues(Parser("recover_to_next_line", value.p), values)

parse_enum(p) ==
  LET s == PeekStart(p)
      e1 == expect_token(s.p, "Enum", <<>>, "'enum'")
      identifier == Parser("parse_identifier", e1.p)
      e2 == expect_token(identifier.p, "Lbrace", <<>>, "'{'")
      v == EnumValues(e2.p, <<>>)
  IN IF ~e1.ok THEN None(e1.p)
     ELSE IF ~identifier.ok THEN None(identifier.p)
     ELSE IF ~e2.ok THEN None(e2.p)
     ELSE Some(v.p, [kind |-> "Enum",
                     range |-> [start |-> s.start, end |-> PrevEnd(v.p)],
                     identifier |-> identifier.node,
                     values |-> v.values])

\* The optional field ID and requiredness that open a field (parse_field,
\* up to the field type).
FieldHead(p) ==
  LET pk1 == Parser("peek_next_token", p)
      has_id == pk1.token.kind = "IntConstant"
      req1 == pk1.token.kind \in {"Required", "Optional"}
      colon == expect_token(Parser("eat_next_token", pk1.p), "Colon", <<>>, "':'")
      p1 == IF has_id THEN colon.p
            ELSE IF req1 THEN Parser("eat_next_token", pk1.p)
            ELSE pk1.p
      pk2 == Parser("peek_next_token", p1)
      req2 == pk2.token.kind \in {"Required", "Optional"}
  IN IF has_id /\ ~colon.ok THEN [p |-> colon.p, ok |-> FALSE]
     ELSE IF req2 /\ req1
     THEN [p |-> add_error(pk2.p,
                           <<"Expected field type, but got ", TokenText(pk2.token)>>,
                           TokenRange(pk2.token)),
           ok |-> FALSE]
     ELSE [p |-> IF req2 THEN Parser("eat_next_token", pk2.p) ELSE pk2.p,
           ok |-> TRUE,
           field_id |-> IF has_id
                        THEN Present([kind |-> "FieldId",
                                      range |-> TokenRange(pk1.token),
                                      id |-> parse_i32(pk1.token.value)])
                        ELSE Absent,
           field_req |-> IF req1 THEN Present(TokenText(pk1.token))
                         ELSE IF req2 THEN Present(TokenText(pk2.token))
                         ELSE Absent]

\* parse_field from the field type on.
FieldBody(start, head) ==
  LET field_type == Parser("parse_field_type", head.p)
      identifier == Parser("parse_identifier", field_type.p)
      pk3 == Parser("peek_next_token", identifier.p)
      assigned == pk3.token.kind = "Assign"
      default_value == Parser("parse_const_value", Parser("eat_next_token", pk3.p))
      x == Parser("opt_parse_ext", IF assigned THEN default_value.p ELSE pk3.p)
      q == opt_list_separator(x.p)
  IN IF ~field_type.ok THEN None(field_type.p)
     ELSE IF ~identifier.ok THEN None(identifier.p)
     ELSE IF assigned /\ ~default_value.ok THEN None(default_value.p)
     ELSE Some(q, [kind |-> "Field",
                   range |-> [start |-> start, end |-> PrevEnd(q)],
                   field_id |-> head.field_id,
                   field_req |-> head.field_req,
                   field_type |-> field_type.node,
                   identifier |-> identifier.node,
                   default_value |-> IF assigned THEN Present(default_value.node)
                                     ELSE Absent,
                   ext |-> x.ext])

parse_field(p) ==
  LET s == PeekStart(p)
      head == FieldHead(s.p)
  IN IF ~head.ok THEN None(head.p) ELSE FieldBody(s.start, head)

\* The loop over the fields of a struct, a union or an exception.
RECURSIVE FieldsToRbrace(_, _)
FieldsToRbrace(p, fields) ==
  LET b == break_opt_token_or_eof(p, "Rbrace")
      field == Parser("parse_field", b.p)
  IN IF b.break THEN [p |-> b.p, fields |-> fields]
     ELSE IF field.ok THEN FieldsToRbrace(field.p, Append(fields, field.node))
     ELSE FieldsToRbrace(Parser("recover_to_next_line", field.p), fields)

\* The loop over the fields of a parameter list or of a throws list.
RECURSIVE FieldsToRparen(_, _)
FieldsToRparen(p, fields) ==
  LET b == break_opt_token_or_eof(p, "Rparen")
      field == Parser("parse_field", b.p)
  IN IF b.break THEN Some(b.p, fields)
     ELSE IF ~field.ok THEN None(field.p)
     ELSE FieldsToRparen(field.p, Append(fields, field.node))

parse_struct(p) ==
  LET s == PeekStart(p)
      e1 == expect_token(s.p, "Struct", <<>>, "'struct'")
      identifier == Parser("parse_identifier", e1.p)
      e2 == expect_token(identifier.p, "Lbrace", <<>>, "'{'")
      f == FieldsToRbrace(e2.p, <<>>)
      x == Parser("opt_parse_ext", f.p)
  IN IF ~e1.ok THEN None(e1.p)
     ELSE IF ~identifier.ok THEN None(identifier.p)
     ELSE IF ~e2.ok THEN None(e2.p)
     ELSE Some(x.p, [kind |-> "Struct",
                     range |-> [start |-> s.start, end |-> PrevEnd(x.p)],
                     identifier |-> identifier.node,
                     fields |-> f.fields,
                     ext |-> x.ext])

parse_union(p) ==
  LET s == PeekStart(p)
      e1 == expect_token(s.p, "Union", <<>>, "'union'")
      identifier == Parser("parse_identifier", e1.p)
      e2 == expect_token(identifier.p, "Lbrace", <<>>, "'{'")
      f == FieldsToRbrace(e2.p, <<>>)
  IN IF ~e1.ok THEN None(e1.p)
     ELSE IF ~identifier.ok THEN None(identifier.p)
     ELSE IF ~e2.ok THEN None(e2.p)
     ELSE Some(f.p, [kind |-> "Union",
                     range |-> [start |-> s.start, end |-> PrevEnd(f.p)],
                     identifier |-> identifier.node,
                     fields |-> f.fields])

parse_exception(p) ==
  LET s == PeekStart(p)
      e1 == expect_token(s.p, "Exception", <<>>, "'exception'")
      identifier == Parser("parse_identifier", e1.p)
      e2 == expect_token(identifier.p, "Lbrace", <<>>, "'{'")
      f == FieldsToRbrace(e2.p, <<>>)
  IN IF ~e1.ok THEN None(e1.p)
     ELSE IF ~identifier.ok THEN None(identifier.p)
     ELSE IF ~e2.ok THEN None(e2.p)
     ELSE Some(f.p, [kind |-> "Exception",
                     range |-> [start |-> s.start, end |-> PrevEnd(f.p)],
                     identifier |-> identifier.node,
                     fields |-> f.fields])

parse_throws(p) ==
  LET e1 == expect_token(p, "Throws", <<>>, "'throws'")
      e2 == expect_token(e1.p, "Lparen", <<>>, "'('")
      f == FieldsToRparen(e2.p, <<>>)
  IN IF ~e1.ok THEN None(e1.p)
     ELSE IF ~e2.ok THEN None(e2.p)
     ELSE f

parse_function(p) ==
  LET s == PeekStart(p)
      pk1 == Parser("peek_next_token", s.p)
      is_oneway == pk1.token.kind = "Oneway"
      return_type == Parser("parse_function_type", IF is_oneway THEN Parser("eat_next_token", pk1.p)
                                         ELSE pk1.p)
      identifier == Parser("parse_identifier", return_type.p)
      e == expect_token(identifier.p, "Lparen", <<>>, "'('")
      f == FieldsToRparen(e.p, <<>>)
      pk2 == Parser("peek_next_token", f.p)
      has_throws == pk2.token.kind = "Throws"
      throws == Parser("parse_throws", pk2.p)
      x == Parser("opt_parse_ext", IF has_throws THEN throws.p ELSE pk2.p)
      q == opt_list_separator(x.p)
  IN IF ~return_type.ok THEN None(return_type.p)
     ELSE IF ~identifier.ok THEN None(identifier.p)
     ELSE IF ~e.ok THEN None(e.p)
     ELSE IF ~f.ok THEN None(f.p)
     ELSE IF has_throws /\ ~throws.ok THEN None(throws.p)
     ELSE Some(q, [kind |-> "Function",
                   range |-> [start |-> s.start, end |-> PrevEnd(q)],
                   is_oneway |-> is_oneway,
                   function_type |-> return_type.node,
                   identifier |-> identifier.node,
                   fields |-> f.node,
                   throws |-> IF has_throws THEN Present(throws.node) ELSE Absent,
                   ext |-> x.ext])

RECURSIVE Functions(_, _)
Functions(p, functions) ==
  LET b == break_opt_token_or_eof(p, "Rbrace")
      function == Parser("parse_function", b.p)
  IN IF b.break THEN [p |-> b.p, functions |-> functions]
     ELSE IF function.ok THEN Functions(function.p, Append(functions, function.node))
     ELSE Functions(Parser("recover_to_next_line", function.p), functions)

\* The target of `extends` is kept as the identifier node of its token.
parse_service(p) ==
  LET s == PeekStart(p)
      e1 == expect_token(s.p, "Service", <<>>, "'service'")
      identifier == Parser("parse_identifier", e1.p)
      pk == Parser("peek_next_token", identifier.p)
      has_extends == pk.token.kind = "Extends"
      t == Parser("next_token", Parser("eat_next_token", pk.p))
      extends == extract_token_value(t.p, t.token, "Identifier", "identifier")
      e2 == expect_token(IF has_extends THEN extends.p ELSE pk.p, "Lbrace", <<>>, "'{'")
      f == Functions(e2.p, <<>>)
  IN IF ~e1.ok THEN None(e1.p)
     ELSE IF ~identifier.ok THEN None(identifier.p)
     ELSE IF has_extends /\ ~extends.ok THEN None(extends.p)
     ELSE IF ~e2.ok THEN None(e2.p)
     ELSE Some(f.p, [kind |-> "Service",
                     range |-> [start |-> s.start, end |-> PrevEnd(f.p)],
                     identifier |-> identifier.node,
                     extends |-> IF has_extends
                                 THEN Present(IdentifierNode(TokenRange(t.token),
                                                             extends.value))
                                 ELSE Absent,
                     functions |-> f.functions])

ParseDefinition(p, kind) ==
  CASE kind = "Const" -> Parser("parse_const", p)
    [] kind = "Typedef" -> Parser("parse_typedef", p)
    [] kind = "Enum" -> Parser("parse_enum", p)
    [] kind = "Struct" -> Parser("parse_struct", p)
    [] kind = "Union" -> Parser("parse_union", p)
    [] kind = "Exception" -> Parser("parse_exception", p)
    [] kind = "Service" -> Parser("parse_service", p)

\* parse_definition!, one iteration of the loop of parse_definitions, up to
\* its call of recover_to_next_definition: whether the loop ends, whether
\* the iteration goes on with the recovery, the parser then, and the
\* definition if one was parsed.
parse_definition(p) ==
  LET pk == Parser("peek_next_token", p)
      r == ParseDefinition(pk.p, pk.token.kind)
  IN IF pk.token.kind \in DefinitionKinds
     THEN IF r.ok
          THEN [p |-> r.p, break |-> FALSE, recover |-> FALSE, ok |-> TRUE,
                node |-> r.node]
          ELSE [p |-> r.p, break |-> FALSE, recover |-> TRUE, ok |-> FALSE]
     ELSE IF is_eof(pk.token)
     THEN [p |-> pk.p, break |-> TRUE, recover |-> FALSE, ok |-> FALSE]
     ELSE [p |-> Parser("eat_next_token",
                        add_error(pk.p, <<"Unexpected token: ", TokenText(pk.token)>>,
                                  TokenRange(pk.token))),
           break |-> FALSE, recover |-> TRUE, ok |-> FALSE]

\* loop { parse_definition!(...) }: the loop goes on from the parser an
\* iteration leaves, after the recovery if the iteration asks for it, with
\* the definition it parsed.
RECURSIVE DefinitionsLoop(_, _)
DefinitionsLoop(it, definitions) ==
  IF it.break THEN [p |-> it.p, definitions |-> definitions]
  ELSE DefinitionsLoop(parse_definition(IF it.recover
                                        THEN Parser("recover_to_next_definition", it.p)
                                        ELSE it.p),
                       IF it.ok THEN Append(definitions, it.node)
                       ELSE definitions)

parse_definitions(p, definitions) == DefinitionsLoop(parse_definition(p), definitions)

\* Parser::parse: the document node and the errors, unless a scan panicked.
parse(p) ==
  LET s == PeekStart(p)
      h == parse_headers(s.p, <<>>)
      d == parse_definitions(h.p, <<>>)
  IN [node |-> [kind |-> "Document",
                range |-> [start |-> s.start, end |-> PrevEnd(d.p)],
                headers |-> h.headers,
                definitions |-> d.definitions],
      errors |-> d.p.errors,
      panic |-> d.p.panic]

\* A call of a method of the parser: self.<method>().
Parser(method, p) ==
  CASE method = "next_token" -> next_token(p)
    [] method = "peek_next_token" -> peek_next_token(p)
    [] method = "eat_next_token" -> eat_next_token(p)
    [] method = "skip_comment_tokens" -> skip_comment_tokens(p)
    [] method = "parse_include" -> parse_include(p)
    [] method = "parse_cpp_include" -> parse_cpp_include(p)
    [] method = "parse_namespace" -> parse_namespace(p)
    [] method = "parse_identifier" -> parse_identifier(p)
    [] method = "parse_const" -> parse_const(p)
    [] method = "parse_field_type" -> parse_field_type(p)
    [] method = "parse_definition_type" -> parse_definition_type(p)
    [] method = "parse_container_type" -> parse_container_type(p)
    [] method = "opt_parse_cpp_type" -> opt_parse_cpp_type(p)
    [] method = "parse_map_type" -> parse_map_type(p)
    [] method = "parse_set_type" -> parse_set_type(p)
    [] method = "parse_list_type" -> parse_list_type(p)
    [] method = "parse_const_value" -> parse_const_value(p)
    [] method = "parse_const_list" -> parse_const_list(p)
    [] method = "parse_const_map" -> parse_const_map(p)
    [] method = "parse_const_map_value" -> parse_const_map_value(p)
    [] method = "parse_typedef" -> parse_typedef(p)
    [] method = "parse_enum" -> parse_enum(p)
    [] method = "parse_enum_value" -> parse_enum_value(p)
    [] method = "parse_struct" -> parse_struct(p)
    [] method = "parse_field" -> parse_field(p)
    [] method = "parse_union" -> parse_union(p)
    [] method = "parse_exception" -> parse_exception(p)
    [] method = "parse_service" -> parse_service(p)
    [] method = "parse_function" -> parse_function(p)
    [] method = "parse_function_type" -> parse_function_type(p)
    [] method = "parse_throws" -> parse_throws(p)
    [] method = "opt_parse_ext" -> opt_parse_ext(p)
    [] method = "parse_key_value_pair" -> parse_key_value_pair(p)
    [] method = "recover_to_next_definition" -> recover_to_next_definition(p)
    [] method = "recover_to_next_line" -> recover_to_next_line(p)
    [] method = "parse_header!" -> parse_header(p)
    [] method = "parse_definition!" -> parse_definition(p)
    [] method = "recover_to_next_definition, once" -> RecoverIteration(p)
    [] method = "parse" -> parse(p)
    [] method = "scan" -> ParserScan(p)

ParseText(input) == Parser("parse", NewParser(input))

(***************************************************************************)
(* The symbol table checks and the analyzer read the tree through these.   *)
(***************************************************************************)
Parse(content) == ParseText(Text(content))

OptionNodes(option) == IF option.some THEN <<option.node>> ELSE <<>>

\* Node::children (ast.rs), by node kind.
children(node) ==
  CASE node.kind = "Document" -> node.headers \o node.definitions
    [] node.kind = "Namespace" -> <<node.identifier>> \o OptionNodes(node.ext)
    [] node.kind = "Const" -> <<node.field_type, node.identifier, node.value>>
    [] node.kind = "MapType" -> <<node.key_type, node.value_type>>
    [] node.kind \in {"SetType", "ListType"} -> <<node.type_node>>
    [] node.kind = "Typedef" -> <<node.definition_type, node.identifier>>
    [] node.kind = "Enum" -> <<node.identifier>> \o node.values
    [] node.kind = "EnumValue" -> OptionNodes(node.ext)
    [] node.kind = "Struct" ->
         <<node.identifier>> \o node.fields \o OptionNodes(node.ext)
    [] node.kind = "Field" ->
         OptionNodes(node.field_id) \o <<node.field_type, node.identifier>>
         \o OptionNodes(node.default_value) \o OptionNodes(node.ext)
    [] node.kind \in {"Union", "Exception"} -> <<node.identifier>> \o node.fields
    [] node.kind = "Service" -> <<node.identifier>> \o node.functions
    [] node.kind = "Function" ->
         <<node.function_type, node.identifier>> \o node.fields
         \o (IF node.throws.some THEN node.throws.node ELSE <<>>)
         \o OptionNodes(node.ext)
    [] OTHER -> <<>>

(***************************************************************************)
(* IdentifierNode (ast.rs).                                                *)
(***************************************************************************)
\* name.find('.') : the zero-based index of the first dot, -1 for none.
DotIndex(name) == FirstIndexOf(name, Dot) - 1

position_in_namespace(identifier, pos) ==
  LET dot_index == DotIndex(identifier.name)
  IN IF dot_index < 0 THEN FALSE
     ELSE /\ Contains(identifier.range, pos)
          /\ pos.column >= identifier.range.start.column
          /\ pos.column <= identifier.range.start.column + dot_index

split_by_first_dot(identifier) ==
  LET dot_index == DotIndex(identifier.name)
      mid == Pos(identifier.range.start.line,
                 identifier.range.start.column + dot_index)
  IN IF dot_index < 0
     THEN [namespace |-> [some |-> FALSE], identifier |-> identifier]
     ELSE [namespace |->
             [some |-> TRUE,
              node |-> IdentifierNode([start |-> identifier.range.start, end |-> mid],
                                      SubSeq(identifier.name, 1, dot_index))],
           identifier |->
             IdentifierNode([start |-> mid, end |-> identifier.range.end],
                            SubSeq(identifier.name, dot_index + 2,
                                   Len(identifier.name)))]

(***************************************************************************)
(* SymbolTable (symbol.rs).                                                *)
(***************************************************************************)
NewSymbolTable ==
  [path |-> <<>>, types |-> EmptyMap, include_nodes |-> EmptyMap,
   includes |-> EmptyMap, namespace_to_path |-> EmptyMap, errors |-> <<>>]

\* process_definition that lets a later definition take the place of an
\* earlier one of the same name.
process_definition_Overwrites(table, definition) ==
  LET name == definition.identifier.name
  IN IF name \in DOMAIN table.types
     THEN [table EXCEPT !.errors =
             Append(@, [range |-> definition.range,
                        message |-> <<"Duplicate definition: ", name>>]),
                        !.types = Put(@, name, definition)]
     ELSE [table EXCEPT !.types = Put(@, name, definition)]

process_definition(table, definition) ==
  LET name == definition.identifier.name
  IN IF name \in DOMAIN table.types
     THEN [table EXCEPT !.errors =
             Append(@, [range |-> definition.range,
                        message |-> <<"Duplicate definition: ", name>>])]
     ELSE [table EXCEPT !.types = Put(@, name, definition)]

RECURSIVE ProcessDefinitions(_, _, _)
ProcessDefinitions(table, definitions, i) ==
  IF i > Len(definitions) THEN table
  ELSE ProcessDefinitions(process_definition(table, definitions[i]), definitions, i + 1)

new_from_ast(path, document) ==
  ProcessDefinitions([NewSymbolTable EXCEPT !.path = path], document.definitions, 1)

add_dependency(table, path, node, dependency) ==
  LET namespace == file_stem(path)
  IN [table EXCEPT
        !.include_nodes = IF node.kind = "Include" THEN Put(@, namespace, node) ELSE @,
        !.includes = Put(@, namespace, dependency),
        !.namespace_to_path = Put(@, namespace, path)]

NoDefinition == [some |-> FALSE]

RECURSIVE find_definition_of_identifier_type(_, _)
find_definition_of_identifier_type(table, identifier) ==
  LET sp == split_by_first_dot(identifier)
  IN IF sp.namespace.some
     THEN LET ns == sp.namespace.node.name
          IN IF ns \notin DOMAIN table.includes THEN NoDefinition
             ELSE LET r == find_definition_of_identifier_type(table.includes[ns],
                                                              sp.identifier)
                  IN IF ~r.some THEN NoDefinition
                     ELSE IF ns \notin DOMAIN table.include_nodes THEN NoDefinition
                     ELSE [some |-> TRUE, path |-> r.path, def |-> r.def,
                           header |-> [some |-> TRUE,
                                       node |-> table.include_nodes[ns]]]
     ELSE IF identifier.name \notin DOMAIN table.types THEN NoDefinition
          ELSE [some |-> TRUE, path |-> table.path,
                def |-> table.types[identifier.name],
                header |-> [some |-> FALSE]]

check_identifier_type(table, identifier) ==
  IF find_definition_of_identifier_type(table, identifier).some THEN table
  ELSE [table EXCEPT !.errors =
          Append(@, [range |-> identifier.range,
                     message |-> <<"Undefined type: ", identifier.name>>])]

\* check_field_type that does not look inside map, set and list.
check_field_type_Shallow(table, field_type) ==
  IF field_type.kind = "Identifier" THEN check_identifier_type(table, field_type)
  ELSE table

RECURSIVE check_field_type(_, _)
check_field_type(table, field_type) ==
  CASE field_type.kind = "Identifier" -> check_identifier_type(table, field_type)
    [] field_type.kind = "BaseType" -> table
    [] field_type.kind = "MapType" ->
         check_field_type(check_field_type(table, field_type.key_type),
                          field_type.value_type)
    [] field_type.kind \in {"SetType", "ListType"} ->
         check_field_type(table, field_type.type_node)

\* for field in fields { self.check_field_type(&field.field_type) }
RECURSIVE CheckFieldTypes(_, _, _)
CheckFieldTypes(table, fields, i) ==
  IF i > Len(fields) THEN table
  ELSE CheckFieldTypes(check_field_type(table, fields[i].field_type), fields, i + 1)

\* The loop over the functions of a service.  A function whose return type
\* is void has no type to check.
RECURSIVE CheckFunctions(_, _, _)
CheckFunctions(table, functions, i) ==
  IF i > Len(functions) THEN table
  ELSE LET function == functions[i]
           t1 == check_field_type(table, function.function_type)
           t2 == CheckFieldTypes(t1, function.fields, 1)
           t3 == IF function.throws.some
                 THEN CheckFieldTypes(t2, function.throws.node, 1) ELSE t2
       IN CheckFunctions(t3, functions, i + 1)

CheckDefinition(table, definition) ==
  CASE definition.kind = "Const" -> check_field_type(table, definition.field_type)
    [] definition.kind \in {"Struct", "Union", "Exception"} ->
         CheckFieldTypes(table, definition.fields, 1)
    [] definition.kind = "Service" ->
         CheckFunctions(IF definition.extends.some
                        THEN check_identifier_type(table, definition.extends.node)
                        ELSE table,
                        definition.functions, 1)
    [] OTHER -> table

RECURSIVE CheckDefinitions(_, _, _)
CheckDefinitions(table, definitions, i) ==
  IF i > Len(definitions) THEN table
  ELSE CheckDefinitions(CheckDefinition(table, definitions[i]), definitions, i + 1)

\* The table after the check: its errors cell holds the new errors too.
check_document_types(table, document) ==
  CheckDefinitions(table, document.definitions, 1)

(***************************************************************************)
(* Analyzer (mod.rs).  An analyzer value `an` is the record of the five    *)
(* maps of the struct; the file system read by read_file is `disk`.        *)
(***************************************************************************)
NewAnalyzer ==
  [documents |-> EmptyMap, document_nodes |-> EmptyMap, symbol_tables |-> EmptyMap,
   errors |-> EmptyMap, semantic_tokens |-> EmptyMap]

\* self.errors.entry(path).or_default().extend(errs)
ExtendErrors(an, path, errs) ==
  [an EXCEPT !.errors =
     Put(@, path, (IF path \in DOMAIN @ THEN @[path] ELSE <<>>) \o errs)]

IoError == "No such file or directory (os error 2)"

read_file(path) ==
  IF path \in DOMAIN disk THEN [ok |-> TRUE, content |-> disk[path]]
  ELSE [ok |-> FALSE, err |-> IoError]

NoSource == [some |-> FALSE]

\* The include headers of a document with the paths they name.
Dependencies(path, document_node) ==
  LET parent == path_parent(path)
      headers == SelectSeq(document_node.headers, LAMBDA h : h.kind = "Include")
  IN [i \in 1..Len(headers) |->
        [path |-> Join(parent, headers[i].literal), header |-> headers[i]]]

\* What decides the calls a parse_document call makes: a call that meets the
\* configuration of a call still active above it repeats that call's steps
\* and never returns (the recursion ends in a stack overflow).
Configuration(an, path, visited) == <<path, visited, DOMAIN an.document_nodes>>

RECURSIVE parse_document(_, _, _, _, _), ParseDependencies(_, _, _, _, _, _, _),
          StoreParsed(_, _, _, _, _)

\* parse_document from the parsed file on: its parser errors are stored, its
\* dependencies parsed, and its symbol table and tree stored.
StoreParsed(an, path, visited, active, parsed) ==
  LET an1 == ExtendErrors(an, path, parsed.errors)
      dependencies == Dependencies(path, parsed.node)
      symbol_table == new_from_ast(path, parsed.node)
      r == ParseDependencies(an1, path, visited \cup {path}, dependencies, 1,
             symbol_table,
             active \cup {Configuration(an, path, visited)})
  IN IF r.overflow
     THEN [an |-> r.an, visited |-> r.visited, res |-> FALSE,
           overflow |-> TRUE]
     ELSE [an |-> [r.an EXCEPT
                     !.symbol_tables = Put(@, path, r.symbol_table),
                     !.document_nodes = Put(@, path, parsed.node)],
           visited |-> r.visited, res |-> TRUE, overflow |-> FALSE]

\* The result of parse_document: the analyzer and the visited set after the
\* call, the returned flag, and whether the call overflowed the stack.
\* `active` holds the configurations of the calls on the stack.
parse_document(an, path, visited, source, active) ==
  IF path \in visited
  THEN [an |-> IF source.some
               THEN ExtendErrors(an, source.path,
                      <<[range |-> source.node.range,
                         message |-> <<"Circular dependency detected: ", path>>]>>)
               ELSE an,
        visited |-> visited, res |-> FALSE, overflow |-> FALSE]
  ELSE LET marked == visited \cup {path}
       IN IF path \in DOMAIN an.document_nodes
          THEN [an |-> an, visited |-> marked, res |-> TRUE, overflow |-> FALSE]
          ELSE LET file == IF path \in DOMAIN an.documents
                           THEN [ok |-> TRUE, content |-> an.documents[path]]
                           ELSE read_file(path)
               IN IF ~file.ok
                  THEN [an |-> IF source.some
                               THEN ExtendErrors(an, source.path,
                                      <<[range |-> source.node.range,
                                         message |-> <<"Failed to read file ", path,
                                                       ": ", file.err>>]>>)
                               ELSE an,
                        visited |-> marked, res |-> FALSE, overflow |-> FALSE]
                  ELSE IF Configuration(an, path, visited) \in active
                  THEN [an |-> an, visited |-> marked, res |-> FALSE, overflow |-> TRUE]
                  ELSE StoreParsed(an, path, visited, active, Parse(file.content))

\* The loop over the dependencies of `path` that leaves every dependency in
\* `visited` after its call.
ParseDependencies_KeepsVisited(an, path, visited, dependencies, i, symbol_table, active) ==
  IF i > Len(dependencies)
  THEN [an |-> an, visited |-> visited, symbol_table |-> symbol_table,
        overflow |-> FALSE]
  ELSE LET dep == dependencies[i]
           r == parse_document(an, dep.path, visited,
                               [some |-> TRUE, path |-> path, node |-> dep.header],
                               active)
       IN IF r.overflow
          THEN [an |-> r.an, visited |-> r.visited, symbol_table |-> symbol_table,
                overflow |-> TRUE]
          ELSE ParseDependencies(r.an, path, r.visited, dependencies, i + 1,
                 IF r.res /\ dep.path \in DOMAIN r.an.symbol_tables
                 THEN add_dependency(symbol_table, dep.path, dep.header,
                                     r.an.symbol_tables[dep.path])
                 ELSE symbol_table,
                 active)

\* The loop over the dependencies of `path`, from the i-th on.
ParseDependencies(an, path, visited, dependencies, i, symbol_table, active) ==
  IF i > Len(dependencies)
  THEN [an |-> an, visited |-> visited, symbol_table |-> symbol_table,
        overflow |-> FALSE]
  ELSE LET dep == dependencies[i]
           r == parse_document(an, dep.path, visited,
                               [some |-> TRUE, path |-> path, node |-> dep.header],
                               active)
           unmarked == r.visited \ {dep.path}
       IN IF r.overflow
          THEN [an |-> r.an, visited |-> unmarked, symbol_table |-> symbol_table,
                overflow |-> TRUE]
          ELSE ParseDependencies(r.an, path, unmarked, dependencies, i + 1,
                 IF r.res /\ dep.path \in DOMAIN r.an.symbol_tables
                 THEN add_dependency(symbol_table, dep.path, dep.header,
                                     r.an.symbol_tables[dep.path])
                 ELSE symbol_table,
                 active)

\* format!("{}", id) for an i32.
RECURSIVE NatToString(_)
NatToString(n) ==
  LET digit == <<"0", "1", "2", "3", "4", "5", "6", "7", "8", "9">>[(n % 10) + 1]
  IN IF n < 10 THEN <<digit>> ELSE Append(NatToString(n \div 10), digit)

i32_to_string(n) ==
  IF n >= 0 THEN NatToString(n)
  ELSE IF n = (0 - 2147483647) - 1
  THEN <<"-", "2", "1", "4", "7", "4", "8", "3", "6", "4", "8">>
  ELSE <<"-">> \o NatToString(0 - n)

\* self.errors.entry(path).or_default().push(error) for each field of the
\* list that repeats an ID or a name seen earlier in the list.
RECURSIVE fields_check(_, _, _, _, _, _)
fields_check(an, path, fields, i, field_ids, field_identifiers) ==
  IF i > Len(fields) THEN an
  ELSE LET field == fields[i]
           dup_id == field.field_id.some /\ field.field_id.node.id \in field_ids
           dup_name == field.identifier.name \in field_identifiers
           an1 == IF dup_id
                  THEN ExtendErrors(an, path,
                         <<[range |-> field.field_id.node.range,
                            message |-> <<"Duplicate field ID: ",
                                          i32_to_string(field.field_id.node.id)>>]>>)
                  ELSE an
           an2 == IF dup_name
                  THEN ExtendErrors(an1, path,
                         <<[range |-> field.identifier.range,
                            message |-> <<"Duplicate field identifier: ",
                                          field.identifier.name>>]>>)
                  ELSE an1
       IN fields_check(an2, path, fields, i + 1,
                       IF field.field_id.some
                       THEN field_ids \cup {field.field_id.node.id} ELSE field_ids,
                       field_identifiers \cup {field.identifier.name})

\* functions_check that does not check the parameters of the functions.
RECURSIVE functions_check_NamesOnly(_, _, _, _, _)
functions_check_NamesOnly(an, path, functions, i, function_identifiers) ==
  IF i > Len(functions) THEN an
  ELSE functions_check_NamesOnly(
         IF functions[i].identifier.name \in function_identifiers
         THEN ExtendErrors(an, path,
                <<[range |-> functions[i].identifier.range,
                   message |-> <<"Duplicate function identifier: ",
                                 functions[i].identifier.name>>]>>)
         ELSE an,
         path, functions, i + 1,
         function_identifiers \cup {functions[i].identifier.name})

RECURSIVE functions_check(_, _, _, _, _)
functions_check(an, path, functions, i, function_identifiers) ==
  IF i > Len(functions) THEN an
  ELSE LET function == functions[i]
           an1 == fields_check(an, path, function.fields, 1, {}, {})
           an2 == IF function.identifier.name \in function_identifiers
                  THEN ExtendErrors(an1, path,
                         <<[range |-> function.identifier.range,
                            message |-> <<"Duplicate function identifier: ",
                                          function.identifier.name>>]>>)
                  ELSE an1
       IN functions_check(an2, path, functions, i + 1,
                          function_identifiers \cup {function.identifier.name})

RECURSIVE document_check(_, _, _, _)
document_check(an, path, definitions, i) ==
  IF i > Len(definitions) THEN an
  ELSE LET definition == definitions[i]
           an1 == CASE definition.kind \in {"Struct", "Union", "Exception"} ->
                         fields_check(an, path, definition.fields, 1, {}, {})
                    [] definition.kind = "Service" ->
                         functions_check(an, path, definition.functions, 1, {})
                    [] OTHER -> an
       IN document_check(an1, path, definitions, i + 1)

static_check(an, path) ==
  IF path \notin DOMAIN an.document_nodes \/ path \notin DOMAIN an.symbol_tables
  THEN an
  ELSE LET checked == check_document_types(an.symbol_tables[path],
                                           an.document_nodes[path])
           an1 == ExtendErrors([an EXCEPT !.symbol_tables = Put(@, path, checked)],
                               path, checked.errors)
       IN document_check(an1, path, an.document_nodes[path].definitions, 1)

(***************************************************************************)
(* Semantic tokens.                                                        *)
(***************************************************************************)
RECURSIVE collect_field_type_identifiers(_)
collect_field_type_identifiers(field_type) ==
  CASE field_type.kind = "Identifier" -> <<field_type>>
    [] field_type.kind = "BaseType" -> <<>>
    [] field_type.kind = "MapType" ->
         collect_field_type_identifiers(field_type.key_type)
         \o collect_field_type_identifiers(field_type.value_type)
    [] field_type.kind \in {"SetType", "ListType"} ->
         collect_field_type_identifiers(field_type.type_node)

\* The identifiers of the field types of a list of fields.
FieldsTypeIdentifiers(fields) ==
  Flatten([f \in 1..Len(fields) |->
             collect_field_type_identifiers(fields[f].field_type)], 1)

FunctionTypeIdentifiers(function) ==
  collect_field_type_identifiers(function.function_type)
  \o FieldsTypeIdentifiers(function.fields)
  \o (IF function.throws.some THEN FieldsTypeIdentifiers(function.throws.node)
      ELSE <<>>)

DefinitionTypeIdentifiers(definition) ==
  CASE definition.kind = "Const" ->
         collect_field_type_identifiers(definition.field_type)
    [] definition.kind = "Typedef" ->
         collect_field_type_identifiers(definition.definition_type)
         \o <<definition.identifier>>
    [] definition.kind \in {"Struct", "Union", "Exception"} ->
         FieldsTypeIdentifiers(definition.fields)
    [] definition.kind = "Service" ->
         OptionNodes(definition.extends)
         \o Flatten([f \in 1..Len(definition.functions) |->
                       FunctionTypeIdentifiers(definition.functions[f])], 1)
    [] OTHER -> <<>>

find_field_type_identifiers(an, path) ==
  IF path \notin DOMAIN an.document_nodes THEN <<>>
  ELSE LET defs == an.document_nodes[path].definitions
       IN Flatten([d \in 1..Len(defs) |-> DefinitionTypeIdentifiers(defs[d])], 1)

find_function_identifiers(an, path) ==
  IF path \notin DOMAIN an.document_nodes THEN <<>>
  ELSE LET defs == an.document_nodes[path].definitions
       IN Flatten([d \in 1..Len(defs) |->
                     IF defs[d].kind = "Service"
                     THEN [f \in 1..Len(defs[d].functions) |->
                             defs[d].functions[f].identifier]
                     ELSE <<>>], 1)

RangeLeq(r, q) ==
  \/ r.start # q.start /\ PosLeq(r.start, q.start)
  \/ r.start = q.start /\ PosLeq(r.end, q.end)

\* identifiers.sort_by_key(range): a stable insertion sort.
RECURSIVE SortByRange(_)
SortByRange(ids) ==
  IF Len(ids) <= 1 THEN ids
  ELSE LET n == Len(ids)
           front == SortByRange(SubSeq(ids, 1, n - 1))
           x == ids[n]
           keep == {i \in 1..(n - 1) : RangeLeq(front[i][1].range, x[1].range)}
           k == IF keep = {} THEN 0 ELSE CHOOSE i \in keep : \A j \in keep : j <= i
       IN SubSeq(front, 1, k) \o <<x>> \o SubSeq(front, k + 1, n - 1)

RECURSIVE EncodeTokens(_, _, _, _)
EncodeTokens(ids, i, prev_line, prev_char) ==
  IF i > Len(ids) THEN <<>>
  ELSE LET range == ids[i][1].range
           line == range.start.line - 1
           char == range.start.column - 1
           length == Len(ids[i][1].name)
           delta_line == line - prev_line
           delta_start == IF delta_line = 0 THEN char - prev_char ELSE char
       IN <<delta_line, delta_start, length, ids[i][2], 0>>
          \o EncodeTokens(ids, i + 1, line, char)

\* The conversion without the sort.
convert_identifiers_to_semantic_tokens_Unsorted(identifiers) ==
  EncodeTokens(identifiers, 1, 0, 0)

convert_identifiers_to_semantic_tokens(identifiers) ==
  EncodeTokens(SortByRange(identifiers), 1, 0, 0)

generate_semantic_tokens(an, path) ==
  LET types == find_field_type_identifiers(an, path)
      functions == find_function_identifiers(an, path)
      identifiers == [i \in 1..Len(types) |-> <<types[i], 0>>]
                     \o [i \in 1..Len(functions) |-> <<functions[i], 1>>]
  IN [an EXCEPT !.semantic_tokens =
        Put(@, path, convert_identifiers_to_semantic_tokens(identifiers))]

(***************************************************************************)
(* analyze, sync_document, remove_document.                                *)
(***************************************************************************)
\* analyze from the return of parse_document on: static_check and
\* generate_semantic_tokens.
Checked(r, path) ==
  IF r.overflow THEN [an |-> r.an, overflow |-> TRUE]
  ELSE [an |-> generate_semantic_tokens(static_check(r.an, path), path),
        overflow |-> FALSE]

\* analyze with the previous state of every path cleared, not only of `path`.
analyze_ClearsAll(an, path) ==
  LET cleared == [an EXCEPT !.document_nodes = EmptyMap,
                            !.symbol_tables = EmptyMap,
                            !.errors = EmptyMap,
                            !.semantic_tokens = EmptyMap]
  IN Checked(parse_document(cleared, path, {}, NoSource, {}), path)

\* [an, overflow]: the analyzer after analyze(path), unless the recursion
\* of parse_document did not end.
analyze(an, path) ==
  LET cleared == [an EXCEPT !.document_nodes = Remove(@, path),
                            !.symbol_tables = Remove(@, path),
                            !.errors = Remove(@, path),
                            !.semantic_tokens = Remove(@, path)]
  IN Checked(parse_document(cleared, path, {}, NoSource, {}), path)

sync_document(an, path, content) ==
  analyze([an EXCEPT !.documents = Put(@, path, content)], path)

\* remove_document that leaves the symbol table of `path` in place.
remove_document_KeepsTable(an, path) ==
  [documents |-> Remove(an.documents, path),
   document_nodes |-> Remove(an.document_nodes, path),
   symbol_tables |-> an.symbol_tables,
   errors |-> Remove(an.errors, path),
   semantic_tokens |-> Remove(an.semantic_tokens, path)]

remove_document(an, path) ==
  [documents |-> Remove(an.documents, path),
   document_nodes |-> Remove(an.document_nodes, path),
   symbol_tables |-> Remove(an.symbol_tables, path),
   errors |-> Remove(an.errors, path),
   semantic_tokens |-> Remove(an.semantic_tokens, path)]

(***************************************************************************)
(* definition.                                                             *)
(***************************************************************************)
NoIdentifier == [some |-> FALSE]

\* The first identifier, in depth-first order of children(), whose range and
\* whose ancestors' ranges contain pos.
RECURSIVE find_identifier(_, _), FindInChildren(_, _, _)
find_identifier(node, pos) ==
  IF ~Contains(node.range, pos) THEN NoIdentifier
  ELSE IF node.kind = "Identifier" THEN [some |-> TRUE, node |-> node]
  ELSE FindInChildren(children(node), 1, pos)

FindInChildren(nodes, i, pos) ==
  IF i > Len(nodes) THEN NoIdentifier
  ELSE LET found == find_identifier(nodes[i], pos)
       IN IF found.some THEN found ELSE FindInChildren(nodes, i + 1, pos)

NoLocation == [some |-> FALSE]

definition(an, path, pos) ==
  IF path \notin DOMAIN an.document_nodes THEN NoLocation
  ELSE LET found == find_identifier(an.document_nodes[path], pos)
       IN IF ~found.some THEN NoLocation
          ELSE IF path \notin DOMAIN an.symbol_tables THEN NoLocation
          ELSE LET d == find_definition_of_identifier_type(an.symbol_tables[path],
                                                           found.node)
               IN IF ~d.some THEN NoLocation
                  ELSE IF position_in_namespace(found.node, pos)
                  THEN IF d.header.some
                       THEN [some |-> TRUE, path |-> path,
                             range |-> d.header.node.range]
                       ELSE NoLocation
                  ELSE [some |-> TRUE, path |-> d.path,
                        range |-> d.def.identifier.range]

(***************************************************************************)
(* Completion.                                                             *)
(***************************************************************************)
IdentifierChars ==
  {"a", "b", "c", "d", "e", "f", "g", "h", "i", "j", "k", "l", "m", "n", "o", "p",
   "q", "r", "s", "t", "u", "v", "w", "x", "y", "z",
   "A", "B", "C", "D", "E", "F", "G", "H", "I", "J", "K", "L", "M", "N", "O", "P",
   "Q", "R", "S", "T", "U", "V", "W", "X", "Y", "Z",
   "0", "1", "2", "3", "4", "5", "6", "7", "8", "9", "_"}

NoOffset == [some |-> FALSE]

RECURSIVE OffsetLoop(_, _, _, _)
OffsetLoop(document, offset, cur_pos, pos) ==
  IF offset >= Len(document) \/ PosLeq(pos, cur_pos)
  THEN IF cur_pos = pos THEN [some |-> TRUE, offset |-> offset] ELSE NoOffset
  ELSE IF document[offset + 1] = LF
       THEN OffsetLoop(document, offset + 1, Pos(cur_pos.line + 1, 1), pos)
       ELSE IF document[offset + 1] = "\r"
       THEN OffsetLoop(document,
                       IF offset + 1 < Len(document) /\ document[offset + 2] = LF
                       THEN offset + 2 ELSE offset + 1,
                       Pos(cur_pos.line + 1, 1), pos)
       ELSE OffsetLoop(document, offset + 1,
                       Pos(cur_pos.line, cur_pos.column + 1), pos)

offset_at_position(an, path, pos) ==
  IF path \notin DOMAIN an.documents THEN NoOffset
  ELSE OffsetLoop(Text(an.documents[path]), 0, Pos(1, 1), pos)

\* The run of identifier characters that ends just before `offset`.
idet_prev_offset(an, path, offset) ==
  LET document == Text(an.documents[path])
      stops == {i \in 1..offset : document[i] \notin IdentifierChars}
      from == IF stops = {} THEN 1
              ELSE (CHOOSE i \in stops : \A j \in stops : j <= i) + 1
  IN SubSeq(document, from, offset)

\* types_for_completion that takes no notice of a dot.
types_for_completion_OwnTypes(an, path, pos) ==
  IF ~offset_at_position(an, path, pos).some THEN {}
  ELSE IF path \notin DOMAIN an.symbol_tables THEN {}
  ELSE DOMAIN an.symbol_tables[path].types

\* The result is a list in the order of a hash map: modelled as a set.
types_for_completion(an, path, pos) ==
  LET at == offset_at_position(an, path, pos)
  IN IF ~at.some THEN {}
     ELSE IF path \notin DOMAIN an.documents THEN {}
     ELSE IF path \notin DOMAIN an.symbol_tables THEN {}
     ELSE LET document == Text(an.documents[path])
              symbol_table == an.symbol_tables[path]
          IN IF at.offset > 0 /\ document[at.offset] = Dot
             THEN LET word == idet_prev_offset(an, path, at.offset - 1)
                  IN IF word \notin DOMAIN symbol_table.includes THEN {<<>>}
                     ELSE DOMAIN symbol_table.includes[word].types
             ELSE DOMAIN symbol_table.types

includes_for_completion(an, path, pos) ==
  IF path \notin DOMAIN an.symbol_tables THEN {}
  ELSE DOMAIN an.symbol_tables[path].includes

(***************************************************************************)
(* The state machine: one analyzer, driven by sync_document and            *)
(* remove_document; the queries are the operators above, applied to An.    *)
(* `disk` is the file system, `crashed` tells that a call overflowed the   *)
(* stack (the process is gone), `log` lists the calls made so far and      *)
(* `prev` is the analyzer as it was before the last call.                  *)
(***************************************************************************)
An ==
  [documents |-> documents, document_nodes |-> document_nodes,
   symbol_tables |-> symbol_tables, errors |-> errors,
   semantic_tokens |-> semantic_tokens]

\* The file systems the analyzer is run on.
DiskEmpty == EmptyMap

DiskChain ==
  (PathA :> <<Inc(PathB), Ref(NameBT)>>)
  @@ (PathB :> <<Inc(PathC), Def(NameT)>>)
  @@ (PathC :> <<Def(NameT)>>)

DiskCycle ==
  (PathA :> <<Inc(PathB)>>)
  @@ (PathB :> <<Inc(PathA)>>)
  @@ (PathC :> <<Inc(PathA), Inc(PathA)>>)

Disks == {DiskEmpty, DiskChain, DiskCycle}

\* The (path, content) pairs given to sync_document.
SyncInputs ==
  {<<PathA, <<Inc(PathB), Ref(NameBT)>>>>,
   <<PathA, <<Inc(PathB), Ref(NameBCT)>>>>,
   <<PathA, <<Inc(PathB)>>>>,
   <<PathA, <<Inc(PathM), Inc(PathC)>>>>,
   <<PathA, <<Inc(PathA), Inc(PathA)>>>>,
   <<PathB, <<Def(NameT)>>>>,
   <<PathB, <<Def(NameU), Def(NameT)>>>>,
   <<PathB, <<Def(NameU)>>>>,
   <<PathB, <<Inc(PathC), Def(NameT)>>>>,
   <<PathB, <<Inc(PathA)>>>>,
   <<PathC, <<Def(NameT)>>>>,
   <<PathC, <<Def(NameU), Def(NameT)>>>>}

\* No scanner and no parser of its own is running beside the analyzer.
NotParsed == [done |-> FALSE, errors |-> <<>>, panic |-> FALSE]

IdleScanner == scan_input = <<>> /\ scan_state = NewScannerState /\ scan_log = <<>>

IdleParser ==
  /\ parse_input = <<>>
  /\ parse_result = NotParsed
  /\ loop_parser = NewParser(<<>>)
  /\ loop_pc = "idle"

\* No language server is running.
NoMessage == [some |-> FALSE]

IdleServer ==
  /\ wire = <<>>
  /\ closed = FALSE
  /\ buffer = <<>>
  /\ server_pc = "idle"
  /\ server_message = NoMessage
  /\ handled = <<>>
  /\ written = <<>>
  /\ initialized = FALSE
  /\ sent = 0

Init ==
  /\ documents = EmptyMap
  /\ document_nodes = EmptyMap
  /\ symbol_tables = EmptyMap
  /\ errors = EmptyMap
  /\ semantic_tokens = EmptyMap
  /\ disk \in Disks
  /\ crashed = FALSE
  /\ log = <<>>
  /\ prev = NewAnalyzer
  /\ IdleScanner
  /\ IdleParser
  /\ IdleServer

SetAnalyzer(an) ==
  /\ documents' = an.documents
  /\ document_nodes' = an.document_nodes
  /\ symbol_tables' = an.symbol_tables
  /\ errors' = an.errors
  /\ semantic_tokens' = an.semantic_tokens

SyncDocument(path, content) ==
  /\ ~crashed
  /\ Len(log) < MaxOps
  /\ \E r \in {sync_document(An, path, content)} :
        /\ SetAnalyzer(r.an)
        /\ crashed' = r.overflow
  /\ log' = Append(log, [op |-> "sync", path |-> path, content |-> content])
  /\ prev' = An
  /\ UNCHANGED <<disk, scan_vars, parse_vars, loop_vars, server_vars>>

RemoveDocument(path) ==
  /\ ~crashed
  /\ Len(log) < MaxOps
  /\ SetAnalyzer(remove_document(An, path))
  /\ log' = Append(log, [op |-> "remove", path |-> path, content |-> <<>>])
  /\ prev' = An
  /\ UNCHANGED <<disk, crashed, scan_vars, parse_vars, loop_vars, server_vars>>

Next ==
  \/ \E in \in SyncInputs : SyncDocument(in[1], in[2])
  \/ \E path \in Paths : RemoveDocument(path)

Spec == Init /\ [][Next]_vars

(***************************************************************************)
(* The analyzer on include graphs with a shared dependency: on the disk a  *)
(* includes b and b includes c; the calls make a include c as well (a      *)
(* diamond), list c twice, drop the includes, or close a cycle from c.     *)
(* One content of a has a statement that the parser rejects.  The disk     *)
(* with cycles is the other file system the calls are made on.             *)
(***************************************************************************)
IncludeInputs ==
  {<<PathA, <<Inc(PathB), Inc(PathC), Inc(PathC)>>>>,
   <<PathA, <<Inc(PathB), Ref(NameBT)>>>>,
   <<PathA, <<Inc(PathC), Line(KwStruct)>>>>,
   <<PathB, <<Def(NameT)>>>>,
   <<PathB, <<Inc(PathC), Def(NameT)>>>>,
   <<PathC, <<Def(NameT)>>>>,
   <<PathC, <<Inc(PathB)>>>>}

InitIncludes ==
  /\ documents = EmptyMap
  /\ document_nodes = EmptyMap
  /\ symbol_tables = EmptyMap
  /\ errors = EmptyMap
  /\ semantic_tokens = EmptyMap
  /\ disk \in {DiskChain, DiskCycle}
  /\ crashed = FALSE
  /\ log = <<>>
  /\ prev = NewAnalyzer
  /\ IdleScanner
  /\ IdleParser
  /\ IdleServer

NextIncludes ==
  \/ \E in \in IncludeInputs : SyncDocument(in[1], in[2])
  \/ \E path \in Paths : RemoveDocument(path)

SpecIncludes == InitIncludes /\ [][NextIncludes]_vars

(***************************************************************************)
(* The analyzer on documents with definitions of every kind: the calls are *)
(* sync_document on SymbolInputs, over the file system DiskTypes.          *)
(***************************************************************************)
\* struct S { 1: T a, 2: list<map<b.T, b.X>> b, 1: i32 a }
LineFields ==
  <<"s", "t", "r", "u", "c", "t", " ", "S", " ", "{", " ", "1", ":", " ", "T",
    " ", "a", ",", " ", "2", ":", " ", "l", "i", "s", "t", "<", "m", "a", "p",
    "<", "b", ".", "T", ",", " ", "b", ".", "X", ">", ">", " ", "b", ",", " ",
    "1", ":", " ", "i", "3", "2", " ", "a", " ", "}">>

\* union S { 1: S x, 2: set<S> y }
LineUnion ==
  <<"u", "n", "i", "o", "n", " ", "S", " ", "{", " ", "1", ":", " ", "S", " ",
    "x", ",", " ", "2", ":", " ", "s", "e", "t", "<", "S", ">", " ", "y", " ",
    "}">>

\* service V extends b.W { void f(1: b.T a, 1: Y a) throws (1: Z e, 1: b.T e), b.T f(), oneway list<Q> g() }
LineService ==
  <<"s", "e", "r", "v", "i", "c", "e", " ", "V", " ", "e", "x", "t", "e", "n",
    "d", "s", " ", "b", ".", "W", " ", "{", " ", "v", "o", "i", "d", " ", "f",
    "(", "1", ":", " ", "b", ".", "T", " ", "a", ",", " ", "1", ":", " ", "Y",
    " ", "a", ")", " ", "t", "h", "r", "o", "w", "s", " ", "(", "1", ":", " ",
    "Z", " ", "e", ",", " ", "1", ":", " ", "b", ".", "T", " ", "e", ")", ",",
    " ", "b", ".", "T", " ", "f", "(", ")", ",", " ", "o", "n", "e", "w", "a",
    "y", " ", "l", "i", "s", "t", "<", "Q", ">", " ", "g", "(", ")", " ", "}">>

\* exception E { 1: V a, E b, c.T c }
LineException ==
  <<"e", "x", "c", "e", "p", "t", "i", "o", "n", " ", "E", " ", "{", " ", "1",
    ":", " ", "V", " ", "a", ",", " ", "E", " ", "b", ",", " ", "c", ".", "T",
    " ", "c", " ", "}">>

\* const i32 K = 1
LineConstK ==
  <<"c", "o", "n", "s", "t", " ", "i", "3", "2", " ", "K", " ", "=", " ", "1">>

\* const K J = 2
LineConstJ ==
  <<"c", "o", "n", "s", "t", " ", "K", " ", "J", " ", "=", " ", "2">>

\* typedef list<U> L
LineTypedef ==
  <<"t", "y", "p", "e", "d", "e", "f", " ", "l", "i", "s", "t", "<", "U", ">",
    " ", "L">>

\* enum N { A = 1 }
LineEnum ==
  <<"e", "n", "u", "m", " ", "N", " ", "{", " ", "A", " ", "=", " ", "1", " ",
    "}">>

\* const map<N, L> M = {}
LineConstM ==
  <<"c", "o", "n", "s", "t", " ", "m", "a", "p", "<", "N", ",", " ", "L", ">",
    " ", "M", " ", "=", " ", "{", "}">>

\* service W {}
LineServiceW ==
  <<"s", "e", "r", "v", "i", "c", "e", " ", "W", " ", "{", "}">>

DiskTypes == PathB :> <<Def(NameT)>>

SymbolInputs ==
  {<<PathA, <<Inc(PathB), Line(LineFields), Line(LineUnion)>>>>,
   <<PathA, <<Inc(PathB), Line(LineService), Line(LineException)>>>>,
   <<PathA, <<Line(LineConstK), Line(LineConstJ), Line(LineConstK)>>>>,
   <<PathA, <<Line(LineTypedef), Line(LineEnum), Line(LineConstM), Line(LineFields)>>>>,
   <<PathB, <<Def(NameT)>>>>,
   <<PathB, <<Line(LineServiceW), Def(NameT)>>>>}

InitSymbols ==
  /\ documents = EmptyMap
  /\ document_nodes = EmptyMap
  /\ symbol_tables = EmptyMap
  /\ errors = EmptyMap
  /\ semantic_tokens = EmptyMap
  /\ disk = DiskTypes
  /\ crashed = FALSE
  /\ log = <<>>
  /\ prev = NewAnalyzer
  /\ IdleScanner
  /\ IdleParser
  /\ IdleServer

NextSymbols == \E in \in SymbolInputs : SyncDocument(in[1], in[2])

SpecSymbols == InitSymbols /\ [][NextSymbols]_vars

(***************************************************************************)
(* The scanner alone: a scanner over a text of at most MaxInput characters *)
(* of ScanAlphabet, or of at most MaxPieces pieces of ScanPieces, driven   *)
(* by successive scan calls up to the end of the input or a panic.  `scan_log` lists, for each call, the state it        *)
(* started from and what it returned.                                      *)
(***************************************************************************)
MaxInput == 4

ScanAlphabet == {"\"", "'", "a", "\\", " ", "\n"}

\* The texts over an alphabet of at most n characters.
RECURSIVE Texts(_, _)
Texts(alphabet, n) ==
  IF n = 0 THEN {<<>>}
  ELSE LET shorter == Texts(alphabet, n - 1)
       IN shorter \cup {Append(t, c) : t \in shorter, c \in alphabet}

IdleAnalyzer ==
  /\ documents = EmptyMap
  /\ document_nodes = EmptyMap
  /\ symbol_tables = EmptyMap
  /\ errors = EmptyMap
  /\ semantic_tokens = EmptyMap
  /\ disk = DiskEmpty
  /\ crashed = FALSE
  /\ log = <<>>
  /\ prev = NewAnalyzer

\* Comment openers and closers, line breaks and a word: the pieces of the
\* texts with comments, of at most MaxPieces pieces.
MaxPieces == 5

ScanPieces == {<<"/", "*">>, <<"*", "/">>, <<"/", "/">>, <<"\n">>, <<"\r">>, <<"a">>}

RECURSIVE Pieces(_, _)
Pieces(pieces, n) ==
  IF n = 0 THEN {<<>>}
  ELSE LET shorter == Pieces(pieces, n - 1)
       IN shorter \cup {t \o piece : t \in shorter, piece \in pieces}

InitScan ==
  /\ IdleAnalyzer
  /\ IdleParser
  /\ IdleServer
  /\ scan_input \in Texts(ScanAlphabet, MaxInput) \cup Pieces(ScanPieces, MaxPieces)
  /\ scan_state = NewScannerState
  /\ scan_log = <<>>

Scan ==
  /\ IF scan_log = <<>> THEN TRUE
     ELSE /\ ~scan_log[Len(scan_log)].panic
          /\ ~is_eof(scan_log[Len(scan_log)].token)
  /\ LET r == scan(scan_input, scan_state)
     IN /\ scan_state' = r.state
        /\ scan_log' = Append(scan_log, [from |-> scan_state, token |-> r.token,
                                         err |-> r.err, panic |-> r.panic])
  /\ UNCHANGED <<analyzer_vars, scan_input, parse_vars, loop_vars, server_vars>>

NextScan == Scan

SpecScan == InitScan /\ [][NextScan]_vars

(***************************************************************************)
(* The parser alone: a parser over a text of at most MaxWords pieces of    *)
(* ParseWords, one blank between two pieces, and one call of parse.        *)
(***************************************************************************)
MaxWords == 3

WordField ==
  <<"1", ":", " ", "o", "p", "t", "i", "o", "n", "a", "l", " ", "l", "i", "s",
    "t", "<", "a", ">", " ", "a", " ", "=", " ", "[", "1", ",", " ", "'", "x",
    "'", "]", " ", "(", "a", " ", "=", " ", "'", "x", "'", ")", ";">>

WordHeaders ==
  <<"n", "a", "m", "e", "s", "p", "a", "c", "e", " ", "*", " ", "a", " ", "(",
    "a", " ", "=", " ", "'", "x", "'", ")", " ", "c", "p", "p", "_", "i", "n",
    "c", "l", "u", "d", "e", " ", "'", "x", "'">>

WordDefinitions ==
  <<"c", "o", "n", "s", "t", " ", "m", "a", "p", "<", "i", "3", "2", ",", " ",
    "a", ">", " ", "a", " ", "=", " ", "{", "1", ":", " ", "1", ".", "5", "}",
    " ", "e", "n", "u", "m", " ", "a", " ", "{", " ", "a", " ", "=", " ", "1",
    ",", " ", "a", " ", "}", " ", "u", "n", "i", "o", "n", " ", "a", " ", "{",
    " ", "}", " ", "s", "e", "r", "v", "i", "c", "e", " ", "a", " ", "e", "x",
    "t", "e", "n", "d", "s", " ", "a", " ", "{", " ", "o", "n", "e", "w", "a",
    "y", " ", "v", "o", "i", "d", " ", "a", "(", "1", ":", " ", "a", " ", "a",
    ")", " ", "t", "h", "r", "o", "w", "s", " ", "(", "1", ":", " ", "a", " ",
    "a", ")", ",", " ", "s", "e", "t", "<", "a", ">", " ", "a", "(", ")", " ",
    "}">>

ParseWords ==
  {<<"s", "t", "r", "u", "c", "t">>,
   <<"s", "t", "r", "u", "c", "t", " ", "a", " ", "{">>,
   <<"a">>, <<"{">>, <<"}">>, <<"i", "3", "2">>,
   <<"t", "y", "p", "e", "d", "e", "f">>,
   <<"i", "n", "c", "l", "u", "d", "e", " ", "'", "x", "'">>,
   WordField, WordHeaders, WordDefinitions}

RECURSIVE Sentences(_, _)
Sentences(words, n) ==
  IF n = 0 THEN {<<>>}
  ELSE LET shorter == Sentences(words, n - 1)
       IN shorter \cup {IF t = <<>> THEN w ELSE t \o <<" ">> \o w : t \in shorter, w \in words}

InitParse ==
  /\ IdleAnalyzer
  /\ IdleScanner
  /\ IdleServer
  /\ parse_input \in Sentences(ParseWords, MaxWords)
  /\ parse_result = NotParsed
  /\ loop_parser = NewParser(<<>>)
  /\ loop_pc = "idle"

ParseInput ==
  /\ ~parse_result.done
  /\ LET r == ParseText(parse_input)
     IN parse_result' = [done |-> TRUE, errors |-> r.errors, panic |-> r.panic]
  /\ UNCHANGED <<analyzer_vars, scan_vars, parse_input, loop_vars, server_vars>>

NextParse == ParseInput

SpecParse == InitParse /\ [][NextParse]_vars

(***************************************************************************)
(* The loops of Parser::parse, one iteration at a time: `loop_parser` is   *)
(* the parser and `loop_pc` the loop it is in: that of parse_headers, that *)
(* of parse_definitions, that of recover_to_next_definition (called from   *)
(* an iteration of parse_definitions, which it ends), or "done" once parse *)
(* has returned.                                                           *)
(***************************************************************************)
InitLoop ==
  /\ IdleAnalyzer
  /\ IdleScanner
  /\ IdleServer
  /\ parse_input \in Sentences(ParseWords, MaxWords)
  /\ parse_result = NotParsed
  /\ loop_parser = PeekStart(NewParser(parse_input)).p
  /\ loop_pc = "headers"

HeadersIteration ==
  /\ loop_pc = "headers"
  /\ \E it \in {Parser("parse_header!", loop_parser)} :
        /\ loop_parser' = it.p
        /\ loop_pc' = IF it.break THEN "definitions" ELSE "headers"
  /\ UNCHANGED <<analyzer_vars, scan_vars, parse_vars, server_vars>>

DefinitionsIteration ==
  /\ loop_pc = "definitions"
  /\ \E it \in {Parser("parse_definition!", loop_parser)} :
        /\ loop_parser' = it.p
        /\ loop_pc' = IF it.break THEN "done"
                      ELSE IF it.recover THEN "recover" ELSE "definitions"
        /\ parse_result' = IF it.break
                           THEN [done |-> TRUE, errors |-> it.p.errors,
                                 panic |-> it.p.panic]
                           ELSE parse_result
  /\ UNCHANGED <<analyzer_vars, scan_vars, parse_input, server_vars>>

RecoverLoopIteration ==
  /\ loop_pc = "recover"
  /\ \E it \in {Parser("recover_to_next_definition, once", loop_parser)} :
        /\ loop_parser' = it.p
        /\ loop_pc' = IF it.break THEN "definitions" ELSE "recover"
  /\ UNCHANGED <<analyzer_vars, scan_vars, parse_vars, server_vars>>

NextLoop == HeadersIteration \/ DefinitionsIteration \/ RecoverLoopIteration

SpecLoop == InitLoop /\ [][NextLoop]_vars

(***************************************************************************)
(* The language server (server/lsp.rs, server/mod.rs).  The peer writes    *)
(* framed messages to `wire` and may close its end; the server reads them  *)
(* into `buffer`, decodes one message at a time and handles it.  The input *)
(* is counted in units: a header line, the blank line that ends the        *)
(* header, and the JSON body of a message are one unit each, so that a     *)
(* read can deliver a frame in parts or several frames at once.            *)
(* `server_pc` is the place of LanguageServer::run: in read_message at     *)
(* read_buf ("read") or at try_decode_message ("decode"), at the match on  *)
(* the method ("handle"), returned Ok ("stopped") or returned Err          *)
(* ("failed").  `handled` lists the messages                               *)
(* read_message has returned and `written` the messages written.  A        *)
(* response is written with its id and its error code (0 for none); its    *)
(* result is what the analyzer query above returns.                        *)
(***************************************************************************)
MaxMessages == 2

NoId == [some |-> FALSE]
Id(n) == [some |-> TRUE, value |-> n]

\* JSON values of `params`: absent, a scalar, an object without fields, and
\* an object with the fields textDocument (uri, text), position and
\* contentChanges.
NoParams == [some |-> FALSE]
ScalarParams == [some |-> TRUE, object |-> FALSE]
EmptyParams == [some |-> TRUE, object |-> TRUE, text_document |-> FALSE]
DocumentParams(uri, text) ==
  [some |-> TRUE, object |-> TRUE, text_document |-> TRUE, uri |-> uri, text |-> text,
   position |-> Pos(1, 1)]

FileUri(path) == [scheme |-> "file", path |-> path]
UntitledUri(path) == [scheme |-> "untitled", path |-> path]

BaseMessage(id, method, params) == [id |-> id, method |-> method, params |-> params]

is_notification(msg) == ~msg.id.some

\* MessageWriter::encode_message, as the peer frames its messages too.
HeaderLine(name, value, numeric) ==
  [unit |-> "header", name |-> name, value |-> value, numeric |-> numeric]
ContentLength(n) == HeaderLine("Content-Length", n, TRUE)
HeaderEnd == [unit |-> "\r\n\r\n"]
Body(json) == [unit |-> "body", json |-> json]
encode_message(msg) == <<ContentLength(1), HeaderEnd, Body(msg)>>

\* A frame whose body is no message, a frame whose header has no length,
\* and a frame whose length is no number.
GarbageFrame == <<ContentLength(1), HeaderEnd, Body([jsonrpc |-> "2.0"])>>
LengthlessFrame ==
  <<HeaderLine("Content-Type", 0, FALSE), HeaderEnd, Body([jsonrpc |-> "2.0"])>>
WordLengthFrame ==
  <<HeaderLine("Content-Length", 0, FALSE), HeaderEnd, Body([jsonrpc |-> "2.0"])>>

ClientMessages ==
  {BaseMessage(Id(1), "initialize", EmptyParams),
   BaseMessage(Id(1), "initialize", NoParams),
   BaseMessage(Id(1), "initialize", ScalarParams),
   BaseMessage(NoId, "initialized", NoParams),
   BaseMessage(Id(2), "shutdown", NoParams),
   BaseMessage(NoId, "exit", NoParams),
   BaseMessage(NoId, "textDocument/didOpen",
               DocumentParams(FileUri(PathA), <<Ref(NameT)>>)),
   BaseMessage(NoId, "textDocument/didChange",
               DocumentParams(FileUri(PathA), <<Def(NameT)>>)),
   BaseMessage(NoId, "textDocument/didClose", DocumentParams(FileUri(PathA), <<>>)),
   BaseMessage(Id(2), "textDocument/semanticTokens/full",
               DocumentParams(FileUri(PathA), <<>>)),
   BaseMessage(Id(2), "textDocument/definition", DocumentParams(FileUri(PathA), <<>>)),
   BaseMessage(Id(2), "textDocument/definition",
               DocumentParams(UntitledUri(PathA), <<>>)),
   BaseMessage(Id(2), "textDocument/completion", DocumentParams(FileUri(PathA), <<>>)),
   BaseMessage(Id(1), "$/cancelRequest", NoParams),
   BaseMessage(NoId, "$/setTrace", NoParams),
   BaseMessage(Id(1), "workspace/symbol", NoParams)}

ClientFrames ==
  {encode_message(msg) : msg \in ClientMessages}
    \cup {GarbageFrame, LengthlessFrame, WordLengthFrame}

\* serde_json::from_value::<InitializeParams>: every field is optional.
InitializeParamsOk(params) == params.object

\* serde_json::from_value for the parameters that need textDocument.
DocumentParamsOk(params) == params.object /\ params.text_document

\* parse_uri_to_path: Url::parse, then Url::to_file_path.
parse_uri_to_path(uri) ==
  IF uri.scheme = "" THEN [some |-> FALSE]
  ELSE IF uri.scheme # "file" THEN [some |-> FALSE]
  ELSE [some |-> TRUE, path |-> uri.path]

BaseResponse(id, code) == [kind |-> "response", id |-> id, code |-> code]

\* MessageReader::try_decode_message: an error, no message yet, or the first
\* message of the buffer; and the buffer then.
try_decode_message(buf) ==
  LET ends == {i \in 1..Len(buf) : buf[i] = HeaderEnd}
      header_end == CHOOSE i \in ends : \A j \in ends : i <= j
      lengths == {i \in 1..(header_end - 1) :
                    buf[i].unit = "header" /\ buf[i].name = "Content-Length"}
      line == buf[CHOOSE i \in lengths : \A j \in lengths : i <= j]
      content_length == line.value
      message_start == header_end
      body == SubSeq(buf, message_start + 1, message_start + content_length)
      rest == SubSeq(buf, message_start + content_length + 1, Len(buf))
  IN IF ends = {} THEN [err |-> FALSE, some |-> FALSE, buffer |-> buf]
     ELSE IF lengths = {} THEN [err |-> TRUE, some |-> FALSE, buffer |-> buf]
     ELSE IF ~line.numeric THEN [err |-> TRUE, some |-> FALSE, buffer |-> buf]
     ELSE IF Len(buf) < message_start + content_length
     THEN [err |-> FALSE, some |-> FALSE, buffer |-> buf]
     ELSE IF Len(body) = 1 /\ body[1].unit = "body" /\ body[1].json \in ClientMessages
     THEN [err |-> FALSE, some |-> TRUE, message |-> body[1].json, buffer |-> rest]
     ELSE [err |-> TRUE, some |-> FALSE, buffer |-> rest]

\* What a handler leaves: the analyzer, the flag `initialized`, the
\* responses it writes, whether it publishes the diagnostics, whether run
\* leaves its loop, and the calls it made on the analyzer.
Handled(an, init, responses, publish, break, calls) ==
  [an |-> an, overflow |-> FALSE, initialized |-> init, responses |-> responses,
   publish |-> publish, break |-> break, calls |-> calls]

handle_initialize(an, init, msg) ==
  IF ~msg.params.some THEN Handled(an, init, <<>>, FALSE, FALSE, <<>>)
  ELSE IF ~InitializeParamsOk(msg.params) THEN Handled(an, init, <<>>, FALSE, FALSE, <<>>)
  ELSE IF init
  THEN Handled(an, init, <<BaseResponse(msg.id, 0 - 32002)>>, FALSE, FALSE, <<>>)
  ELSE Handled(an, TRUE, <<BaseResponse(msg.id, 0)>>, FALSE, FALSE, <<>>)

handle_shutdown(an, init, msg) ==
  Handled(an, FALSE, <<BaseResponse(msg.id, 0)>>, FALSE, FALSE, <<>>)

handle_method_not_found(an, init, msg) ==
  Handled(an, init, <<BaseResponse(msg.id, 0 - 32601)>>, FALSE, FALSE, <<>>)

\* What did_open leaves after the call of sync_document has returned r.
Synced(r, init, path, text) ==
  [Handled(r.an, init, <<>>, TRUE, FALSE,
           <<[op |-> "sync", path |-> path, content |-> text]>>)
     EXCEPT !.overflow = r.overflow]

\* did_open and did_change: LanguageServer::sync_document, then
\* publish_diagnostics.
did_open(an, init, msg) ==
  IF ~msg.params.some \/ ~DocumentParamsOk(msg.params)
  THEN Handled(an, init, <<>>, FALSE, FALSE, <<>>)
  ELSE LET path == parse_uri_to_path(msg.params.uri)
       IN IF ~path.some THEN Handled(an, init, <<>>, TRUE, FALSE, <<>>)
          ELSE Synced(sync_document(an, path.path, msg.params.text), init,
                      path.path, msg.params.text)

did_close(an, init, msg) ==
  IF ~msg.params.some \/ ~DocumentParamsOk(msg.params)
  THEN Handled(an, init, <<>>, FALSE, FALSE, <<>>)
  ELSE LET path == parse_uri_to_path(msg.params.uri)
       IN IF ~path.some THEN Handled(an, init, <<>>, FALSE, FALSE, <<>>)
          ELSE Handled(remove_document(an, path.path), init, <<>>, FALSE, FALSE,
                       <<[op |-> "remove", path |-> path.path, content |-> <<>>]>>)

\* semantic_tokens_full, definition and completion: one response, unless
\* the parameters are missing or malformed or the URI is no file path.
query(an, init, msg) ==
  IF ~msg.params.some \/ ~DocumentParamsOk(msg.params)
  THEN Handled(an, init, <<>>, FALSE, FALSE, <<>>)
  ELSE IF ~parse_uri_to_path(msg.params.uri).some
  THEN Handled(an, init, <<>>, FALSE, FALSE, <<>>)
  ELSE Handled(an, init, <<BaseResponse(msg.id, 0)>>, FALSE, FALSE, <<>>)

\* The match on the method in LanguageServer::run.
run_match(an, init, msg) ==
  CASE msg.method = "initialize" -> handle_initialize(an, init, msg)
    [] msg.method = "initialized" -> Handled(an, init, <<>>, FALSE, FALSE, <<>>)
    [] msg.method = "shutdown" -> handle_shutdown(an, init, msg)
    [] msg.method = "exit" -> Handled(an, init, <<>>, FALSE, TRUE, <<>>)
    [] msg.method \in {"textDocument/didOpen", "textDocument/didChange"} ->
         did_open(an, init, msg)
    [] msg.method = "textDocument/didClose" -> did_close(an, init, msg)
    [] msg.method = "textDocument/didSave" -> Handled(an, init, <<>>, FALSE, FALSE, <<>>)
    [] msg.method \in {"textDocument/semanticTokens/full", "textDocument/definition",
                       "textDocument/completion"} -> query(an, init, msg)
    [] OTHER ->
         IF msg.method \in {"$/cancelRequest", "$/setTrace"} /\ ~is_notification(msg)
         THEN handle_method_not_found(an, init, msg)
         ELSE Handled(an, init, <<>>, FALSE, FALSE, <<>>)

\* publish_diagnostics: one notification for each path of the errors, in
\* the order the map yields them.
Orders(set) ==
  {order \in [1..Cardinality(set) -> set] :
     \A i, j \in 1..Cardinality(set) : order[i] = order[j] => i = j}

publish_diagnostics(an, order) ==
  [i \in 1..Len(order) |->
     [kind |-> "notification", method |-> "textDocument/publishDiagnostics",
      uri |-> FileUri(order[i]), diagnostics |-> an.errors[order[i]]]]

InitServer ==
  /\ IdleAnalyzer
  /\ IdleScanner
  /\ IdleParser
  /\ wire = <<>>
  /\ closed = FALSE
  /\ buffer = <<>>
  /\ server_pc = "read"
  /\ server_message = NoMessage
  /\ handled = <<>>
  /\ written = <<>>
  /\ initialized = FALSE
  /\ sent = 0

\* The peer sends one more framed message.
Send(frame) ==
  /\ ~closed
  /\ sent < MaxMessages
  /\ wire' = wire \o frame
  /\ sent' = sent + 1
  /\ UNCHANGED <<analyzer_vars, scan_vars, parse_vars, loop_vars, closed, buffer,
                 server_pc, server_message, handled, written, initialized>>

\* The peer closes its end of the stream.
Close ==
  /\ ~closed
  /\ closed' = TRUE
  /\ UNCHANGED <<analyzer_vars, scan_vars, parse_vars, loop_vars, wire, buffer,
                 server_pc, server_message, handled, written, initialized, sent>>

\* The first statement of the loop of read_message: read_buf completes with
\* n units of the wire, or with none if the peer has closed and nothing is
\* left; it does not complete while nothing is there and the stream is open.
ReadBuf(n) ==
  /\ server_pc = "read"
  /\ IF wire = <<>> THEN closed /\ n = 0 ELSE n \in 1..Len(wire)
  /\ buffer' = buffer \o SubSeq(wire, 1, n)
  /\ wire' = SubSeq(wire, n + 1, Len(wire))
  /\ server_pc' = "decode"
  /\ UNCHANGED <<analyzer_vars, scan_vars, parse_vars, loop_vars, closed, server_message,
                 handled, written, initialized, sent>>

\* The second statement of the loop of read_message: try_decode_message
\* fails, returns a message, or returns none and the loop goes round.
TryDecodeMessage ==
  /\ server_pc = "decode"
  /\ \E r \in {try_decode_message(buffer)} :
        /\ buffer' = r.buffer
        /\ server_pc' = IF r.err THEN "failed" ELSE IF r.some THEN "handle" ELSE "read"
        /\ server_message' = IF r.some THEN [some |-> TRUE, message |-> r.message]
                             ELSE NoMessage
        /\ handled' = IF r.some THEN Append(handled, r.message) ELSE handled
  /\ UNCHANGED <<analyzer_vars, scan_vars, parse_vars, loop_vars, wire, closed, written,
                 initialized, sent>>

\* The body of the loop of run after read_message has returned a message.
HandleMessage ==
  /\ server_pc = "handle"
  /\ \E r \in {run_match(An, initialized, server_message.message)} :
        /\ SetAnalyzer(r.an)
        /\ crashed' = r.overflow
        /\ log' = log \o r.calls
        /\ prev' = IF r.calls = <<>> THEN prev ELSE An
        /\ initialized' = r.initialized
        /\ server_pc' = IF r.overflow THEN "failed"
                        ELSE IF r.break THEN "stopped" ELSE "read"
        /\ IF r.publish /\ ~r.overflow
           THEN \E order \in Orders(DOMAIN r.an.errors) :
                  written' = written \o r.responses \o publish_diagnostics(r.an, order)
           ELSE written' = written \o r.responses
  /\ server_message' = NoMessage
  /\ UNCHANGED <<disk, scan_vars, parse_vars, loop_vars, wire, closed, buffer, handled,
                 sent>>

NextServer ==
  \/ \E frame \in ClientFrames : Send(frame)
  \/ Close
  \/ \E n \in 0..(3 * MaxMessages) : ReadBuf(n)
  \/ TryDecodeMessage
  \/ HandleMessage

SpecServer == InitServer /\ [][NextServer]_vars

\* The runtime polls the task of the server whenever its read can complete:
\* a statement of the loop of read_message that can be taken is taken.
\* Nothing obliges the peer to send or to close.
SpecServerFair ==
  /\ SpecServer
  /\ WF_vars(\E n \in 0..(3 * MaxMessages) : ReadBuf(n))
  /\ WF_vars(TryDecodeMessage)

(***************************************************************************)
(* Helpers of the properties.                                              *)
(***************************************************************************)
MaxLine == 3
MaxColumn == 19

Positions == {Pos(l, c) : l \in 1..MaxLine, c \in 1..MaxColumn}

Last == log[Len(log)]

Returned == log # <<>> /\ ~crashed

\* map.get(key), none when the key is absent.
Get(m, k) == IF k \in DOMAIN m THEN [some |-> TRUE, value |-> m[k]] ELSE [some |-> FALSE]

ErrorsOf(an, path) == IF path \in DOMAIN an.errors THEN an.errors[path] ELSE <<>>

IsCircular(e) == e.message[1] = "Circular dependency detected: "
IsFailedRead(e) == e.message[1] = "Failed to read file "
IsUndefinedType(e) == e.message[1] = "Undefined type: "

\* The content a path has for the analyzer: its document, else its file.
Effective(path) ==
  IF path \in DOMAIN documents THEN [some |-> TRUE, content |-> documents[path]]
  ELSE IF path \in DOMAIN disk THEN [some |-> TRUE, content |-> disk[path]]
  ELSE [some |-> FALSE]

(***************************************************************************)
(* C1: sync_document terminates on every include graph (cycles, a file     *)
(* including itself, a file listing the same include twice): no call of    *)
(* sync_document ends in unbounded recursion of parse_document.            *)
(***************************************************************************)
C1_SyncTerminates == ~crashed

(***************************************************************************)
(* C2: if x includes y and y includes x (one include header each), then    *)
(* after every non-empty sequence of sync_document calls on x and y the    *)
(* errors hold exactly one error over the two files, a 'Circular           *)
(* dependency detected:' error at an include header, and nothing else.     *)
(***************************************************************************)
OnlyCycleSyncs ==
  /\ log # <<>>
  /\ disk = DiskCycle
  /\ \A i \in 1..Len(log) :
        /\ log[i].op = "sync"
        /\ \/ log[i].path = PathA /\ log[i].content = <<Inc(PathB)>>
           \/ log[i].path = PathB /\ log[i].content = <<Inc(PathA)>>

C2_OneCircularError ==
  (OnlyCycleSyncs /\ ~crashed) =>
    LET es == ErrorsOf(An, PathA) \o ErrorsOf(An, PathB)
    IN /\ Len(es) = 1
       /\ IsCircular(es[1])
       /\ es[1].range = Parse(<<Inc(PathA)>>).node.headers[1].range

(***************************************************************************)
(* C3: readers observe the last completed sync_document.  If A includes B  *)
(* and A has been synced, then after a later sync_document(B, c'), with A  *)
(* not synced again, definition(A, pos) and the errors of A equal those    *)
(* of a fresh analyzer that is given the latest contents of B and A.       *)
(***************************************************************************)
\* A fresh analyzer (same file system) given the documents of B, then A.
FreshAnalyzer(A, B) ==
  sync_document(sync_document(NewAnalyzer, B, documents[B]).an, A, documents[A]).an

\* A was synced and included B (resolved) before the last call, which
\* synced B with a content that includes nothing.
SyncedDependency(A, B) ==
  /\ Returned
  /\ Last.op = "sync" /\ Last.path = B
  /\ Parse(Last.content).node.headers = <<>>
  /\ A # B
  /\ A \in DOMAIN prev.documents
  /\ A \in DOMAIN prev.symbol_tables
  /\ B \in DOMAIN prev.document_nodes
  /\ file_stem(B) \in DOMAIN prev.symbol_tables[A].includes
  /\ prev.symbol_tables[A].namespace_to_path[file_stem(B)] = B

C3_ReadersSeeLastSync ==
  \A A \in Paths, B \in Paths :
    SyncedDependency(A, B) =>
      LET fresh == FreshAnalyzer(A, B)
      IN /\ ErrorsOf(An, A) = ErrorsOf(fresh, A)
         /\ \A pos \in Positions : definition(An, A, pos) = definition(fresh, A, pos)

(***************************************************************************)
(* C4: sync_document observes all prior syncs to any path.  If A includes  *)
(* B and B includes C, then after sync_document(C, c') followed by         *)
(* sync_document(A, a), B not analysed again in between, every lookup of   *)
(* A through the chain b.c.T resolves against the table built from c'.     *)
(***************************************************************************)
\* The analyzer after the first k calls of the log.
RECURSIVE Replay(_)
Replay(k) ==
  IF k = 0 THEN NewAnalyzer
  ELSE IF log[k].op = "sync"
       THEN sync_document(Replay(k - 1), log[k].path, log[k].content).an
       ELSE remove_document(Replay(k - 1), log[k].path)

\* The identifiers used as types in the document of a path.
TypeReferences(an, path) ==
  LET ids == find_field_type_identifiers(an, path)
  IN {ids[i] : i \in 1..Len(ids)}

\* The last two calls synced C, then A; B was analysed before them and not
\* since; A includes B and B includes C.
ChainSynced(A, B, C) ==
  /\ Returned
  /\ Len(log) >= 2
  /\ Last.op = "sync" /\ Last.path = A
  /\ log[Len(log) - 1].op = "sync" /\ log[Len(log) - 1].path = C
  /\ A # B /\ B # C /\ A # C
  /\ B \in DOMAIN Replay(Len(log) - 2).symbol_tables
  /\ B \in DOMAIN symbol_tables
  /\ symbol_tables[B] = Replay(Len(log) - 2).symbol_tables[B]
  /\ file_stem(B) \in DOMAIN symbol_tables[A].includes
  /\ symbol_tables[A].namespace_to_path[file_stem(B)] = B
  /\ file_stem(C) \in DOMAIN symbol_tables[B].includes
  /\ symbol_tables[B].namespace_to_path[file_stem(C)] = C

C4_SyncObservesPriorSyncs ==
  \A A \in Paths, B \in Paths, C \in Paths :
    ChainSynced(A, B, C) =>
      \A id \in TypeReferences(An, A) :
        LET one == split_by_first_dot(id)
            two == split_by_first_dot(one.identifier)
        IN (/\ one.namespace.some /\ one.namespace.node.name = file_stem(B)
            /\ two.namespace.some /\ two.namespace.node.name = file_stem(C)) =>
             LET got == find_definition_of_identifier_type(symbol_tables[A], id)
                 want == find_definition_of_identifier_type(symbol_tables[C],
                                                            two.identifier)
             IN /\ got.some = want.some
                /\ got.some => (got.path = want.path /\ got.def = want.def)

(***************************************************************************)
(* C5: sync_document is idempotent per path: calling sync_document(p, c)   *)
(* twice in a row leaves the errors of every path, the semantic tokens,    *)
(* the ASTs and the symbol tables as they were after the first call.       *)
(***************************************************************************)
SyncedTwice ==
  /\ Returned
  /\ Len(log) >= 2
  /\ Last.op = "sync"
  /\ log[Len(log) - 1] = Last

C5_SyncIdempotent ==
  SyncedTwice =>
    /\ errors = prev.errors
    /\ semantic_tokens = prev.semantic_tokens
    /\ document_nodes = prev.document_nodes
    /\ symbol_tables = prev.symbol_tables

(***************************************************************************)
(* C6: for distinct paths p and q with p already analysed,                 *)
(* sync_document(q, c) leaves the AST, the symbol table, the error list    *)
(* and the semantic tokens stored for p unchanged, and definition(p, pos)  *)
(* returns the same result before and after the sync of q.                 *)
(***************************************************************************)
SameStored(an, old, path) ==
  /\ Get(an.document_nodes, path) = Get(old.document_nodes, path)
  /\ Get(an.symbol_tables, path) = Get(old.symbol_tables, path)
  /\ Get(an.errors, path) = Get(old.errors, path)
  /\ Get(an.semantic_tokens, path) = Get(old.semantic_tokens, path)

C6_SyncLeavesOtherPaths ==
  (Returned /\ Last.op = "sync") =>
    \A p \in (DOMAIN prev.document_nodes) \ {Last.path} :
      /\ SameStored(An, prev, p)
      /\ \A pos \in Positions : definition(An, p, pos) = definition(prev, p, pos)

\* The last call synced a document q that includes an analysed p, in which
\* some position has a definition.
C6_Witness ==
  /\ Returned /\ Last.op = "sync"
  /\ \E p \in (DOMAIN prev.document_nodes) \ {Last.path} :
        /\ file_stem(p) \in DOMAIN symbol_tables[Last.path].includes
        /\ \E pos \in Positions : definition(An, p, pos).some

(***************************************************************************)
(* C7: after remove_document(p), errors() has no entry for p,              *)
(* semantic_tokens(p) is none, definition(p, pos) is none for every pos,   *)
(* types_for_completion(p, pos) and includes_for_completion(p, pos) are    *)
(* empty, and what is stored for every other path is unchanged.            *)
(***************************************************************************)
C7_RemoveDocument ==
  (Returned /\ Last.op = "remove") =>
    LET p == Last.path
    IN /\ p \notin DOMAIN errors
       /\ p \notin DOMAIN semantic_tokens
       /\ \A pos \in Positions :
             /\ ~definition(An, p, pos).some
             /\ types_for_completion(An, p, pos) = {}
             /\ includes_for_completion(An, p, pos) = {}
       /\ \A q \in Paths \ {p} :
             /\ Get(documents, q) = Get(prev.documents, q)
             /\ SameStored(An, prev, q)

\* The last call removed a synced document that had semantic tokens, an
\* include, and a position with a definition, while another path is stored.
C7_Witness ==
  /\ Returned /\ Last.op = "remove"
  /\ Last.path \in DOMAIN prev.documents
  /\ Last.path \in DOMAIN prev.semantic_tokens
  /\ includes_for_completion(prev, Last.path, Pos(1, 1)) # {}
  /\ \E pos \in Positions : definition(prev, Last.path, pos).some
  /\ \E pos \in Positions : types_for_completion(prev, Last.path, pos) # {}
  /\ \E q \in Paths \ {Last.path} : q \in DOMAIN document_nodes

(***************************************************************************)
(* C8: when the target of an include header cannot be read, one 'Failed    *)
(* to read file' error is recorded on the including file at that header's  *)
(* range, nothing (AST, symbol table, error entry) is stored for the       *)
(* unreadable path, and the including file still gets its AST, its symbol  *)
(* table with all its other resolvable includes, and its semantic tokens.  *)
(* Stated for the document that the last call synced.                      *)
(***************************************************************************)
Target(path, header) == Join(path_parent(path), header.literal)

HeadersOf(an, path) ==
  LET hs == an.document_nodes[path].headers IN {hs[i] : i \in 1..Len(hs)}

Unreadable(path) == ~Effective(path).some

FailedReadErrors(path, header) ==
  LET es == ErrorsOf(An, path)
  IN {i \in 1..Len(es) : /\ IsFailedRead(es[i])
                          /\ es[i].message[2] = Target(path, header)
                          /\ es[i].range = header.range}

C8_FailedIncludeRead ==
  (Returned /\ Last.op = "sync") =>
    LET p == Last.path
    IN /\ p \in DOMAIN document_nodes
       /\ p \in DOMAIN symbol_tables
       /\ p \in DOMAIN semantic_tokens
       /\ \A h \in HeadersOf(An, p) :
             Unreadable(Target(p, h)) =>
               /\ Cardinality(FailedReadErrors(p, h)) = 1
               /\ Target(p, h) \notin DOMAIN document_nodes
               /\ Target(p, h) \notin DOMAIN symbol_tables
               /\ Target(p, h) \notin DOMAIN errors
               /\ \A h2 \in HeadersOf(An, p) :
                     (~Unreadable(Target(p, h2)) /\ Target(p, h2) # p) =>
                       file_stem(Target(p, h2)) \in DOMAIN symbol_tables[p].includes

(***************************************************************************)
(* C9: if file b has a (resolved) include header whose target's file stem  *)
(* is ns and that target defines a type T, then for a reference ns.T in b  *)
(* no 'Undefined type' error is reported and definition(b, pos), pos       *)
(* inside the T part, returns the path of the included file with the       *)
(* range of the identifier that names T in its definition.                 *)
(***************************************************************************)
\* The definitions of the stored AST of `path` that are named `name`.
DefinitionsNamed(an, path, name) ==
  LET ds == an.document_nodes[path].definitions
  IN {ds[i] : i \in {j \in 1..Len(ds) : ds[j].identifier.name = name}}

\* The references ns.T of b (one dot) through a linked include header of b
\* whose target is stored.
QualifiedReferences(b) ==
  {<<id, h>> \in TypeReferences(An, b) \X HeadersOf(An, b) :
     LET sp == split_by_first_dot(id)
     IN /\ sp.namespace.some
        /\ DotIndex(sp.identifier.name) < 0
        /\ sp.namespace.node.name = file_stem(Target(b, h))
        /\ sp.namespace.node.name \in DOMAIN symbol_tables[b].include_nodes
        /\ symbol_tables[b].include_nodes[sp.namespace.node.name] = h
        /\ Target(b, h) \in DOMAIN document_nodes}

\* The positions of an identifier ns.T before its dot / after its dot.
PrefixPositions(id) ==
  {pos \in Positions :
     /\ pos.line = id.range.start.line
     /\ pos.column >= id.range.start.column
     /\ pos.column < id.range.start.column + DotIndex(id.name)}

SuffixPositions(id) ==
  {pos \in Positions :
     /\ pos.line = id.range.start.line
     /\ pos.column > id.range.start.column + DotIndex(id.name)
     /\ pos.column <= id.range.end.column}

C9_QualifiedReferenceResolves ==
  Returned =>
    \A b \in (DOMAIN document_nodes) \cap (DOMAIN symbol_tables) :
      \A ref \in QualifiedReferences(b) :
        LET id == ref[1]
            t == Target(b, ref[2])
            T == split_by_first_dot(id).identifier.name
        IN \A d \in DefinitionsNamed(An, t, T) :
             /\ \A i \in 1..Len(ErrorsOf(An, b)) :
                   ~(IsUndefinedType(errors[b][i]) /\ errors[b][i].range = id.range)
             /\ \A pos \in SuffixPositions(id) :
                   definition(An, b, pos) =
                     [some |-> TRUE, path |-> t, range |-> d.identifier.range]

(***************************************************************************)
(* C10: for every identifier ns.T in file f where ns is the namespace of   *)
(* a resolved include header of f, definition(f, pos) with pos inside the  *)
(* ns prefix returns (f, range of that include header), for every T,       *)
(* including a T that the included file does not define.                   *)
(***************************************************************************)
C10_PrefixGoesToInclude ==
  Returned =>
    \A f \in (DOMAIN document_nodes) \cap (DOMAIN symbol_tables) :
      \A ref \in QualifiedReferences(f) :
        \A pos \in PrefixPositions(ref[1]) :
          definition(An, f, pos) = [some |-> TRUE, path |-> f, range |-> ref[2].range]

(***************************************************************************)
(* C17: for every input in which a quote opens a string literal that has   *)
(* no matching closing delimiter before the end of the input (a quote that *)
(* is the very last character included), scan returns an InvalidString     *)
(* token with the error 'Unclosed string: <the text after the opening      *)
(* quote up to the end of the input>', and does not panic.                 *)
(***************************************************************************)
Whitespace == {" ", "\t", "\n", "\r"}

\* The index of the first character after `offset` that is no white space,
\* 0 if there is none.
FirstVisible(text, offset) ==
  LET visible == {i \in (offset + 1)..Len(text) : text[i] \notin Whitespace}
  IN IF visible = {} THEN 0 ELSE CHOOSE i \in visible : \A j \in visible : i <= j

\* No delimiter d that is not escaped stands at index k or later; a backslash
\* escapes the one character that follows it.
RECURSIVE Unclosed(_, _, _)
Unclosed(text, k, d) ==
  IF k > Len(text) THEN TRUE
  ELSE IF text[k] = "\\" THEN Unclosed(text, k + 2, d)
  ELSE IF text[k] = d THEN FALSE
  ELSE Unclosed(text, k + 1, d)

\* The scan that started at `from` met a quote that opens an unclosed literal.
OpensUnclosedString(text, from) ==
  LET q == FirstVisible(text, from.offset)
  IN q > 0 /\ text[q] \in {"\"", "'"} /\ Unclosed(text, q + 1, text[q])

C17_UnclosedString ==
  \A i \in 1..Len(scan_log) :
    OpensUnclosedString(scan_input, scan_log[i].from) =>
      LET q == FirstVisible(scan_input, scan_log[i].from.offset)
      IN /\ ~scan_log[i].panic
         /\ scan_log[i].token.kind = "InvalidString"
         /\ scan_log[i].err.some
         /\ scan_log[i].err.message
              = <<"Unclosed string: ", SubSeq(scan_input, q + 1, Len(scan_input))>>

(***************************************************************************)
(* The document grammar, as the parser states it production by production, *)
(* and the token sequences it derives.                                     *)
(***************************************************************************)
\* A token of a kind, whatever its value; a token of a kind with one value.
Tok(kind) == [op |-> "tok", kind |-> kind, any |-> TRUE, value |-> <<>>]
Exactly(kind, value) == [op |-> "tok", kind |-> kind, any |-> FALSE, value |-> value]
NT(name) == [op |-> "nt", name |-> name]
Cat(items) == [op |-> "seq", items |-> items]
OneOf(items) == [op |-> "alt", items |-> items]
Opt(item) == [op |-> "opt", item |-> item]
Star(item) == [op |-> "star", item |-> item]

FieldList == Star(NT("Field"))

Grammar ==
  [Document |-> Cat(<<NT("Headers"), NT("Definitions")>>),
   Headers |-> Star(OneOf(<<NT("Include"), NT("CppInclude"), NT("Namespace")>>)),
   Include |-> Cat(<<Tok("Include"), Tok("Literal")>>),
   CppInclude |-> Cat(<<Tok("CppInclude"), Tok("Literal")>>),
   Namespace |-> Cat(<<Tok("Namespace"), Tok("NamespaceScope"), Tok("Identifier"),
                       Opt(NT("Ext"))>>),
   Definitions |-> Star(OneOf(<<NT("Const"), NT("Typedef"), NT("Enum"), NT("Struct"),
                              NT("Union"), NT("Exception"), NT("Service")>>)),
   Const |-> Cat(<<Tok("Const"), NT("FieldType"), Tok("Identifier"), Tok("Assign"),
                   NT("ConstValue"), Opt(Tok("ListSeparator"))>>),
   FieldType |-> OneOf(<<Tok("Identifier"), NT("DefinitionType")>>),
   DefinitionType |-> OneOf(<<Tok("BaseType"), NT("ContainerType")>>),
   ContainerType |-> OneOf(<<NT("MapType"), NT("SetType"), NT("ListType")>>),
   CppType |-> Cat(<<Tok("CppType"), Tok("Identifier")>>),
   MapType |-> Cat(<<Tok("Map"), Opt(NT("CppType")), Tok("Less"), NT("FieldType"),
                     Exactly("ListSeparator", <<",">>), NT("FieldType"),
                     Tok("Greater")>>),
   SetType |-> Cat(<<Tok("Set"), Opt(NT("CppType")), Tok("Less"), NT("FieldType"),
                     Tok("Greater")>>),
   ListType |-> Cat(<<Tok("List"), Opt(NT("CppType")), Tok("Less"), NT("FieldType"),
                      Tok("Greater")>>),
   ConstValue |-> OneOf(<<Tok("IntConstant"), Tok("DoubleConstant"), Tok("Literal"),
                        Tok("Identifier"), NT("ConstList"), NT("ConstMap")>>),
   ConstList |-> Cat(<<Tok("Lbrack"),
                       Star(Cat(<<NT("ConstValue"), Opt(Tok("ListSeparator"))>>)),
                       Tok("Rbrack")>>),
   ConstMap |-> Cat(<<Tok("Lbrace"), Star(NT("ConstMapValue")), Tok("Rbrace")>>),
   ConstMapValue |-> Cat(<<NT("ConstValue"), Tok("Colon"), NT("ConstValue"),
                           Opt(Tok("ListSeparator"))>>),
   Typedef |-> Cat(<<Tok("Typedef"), NT("DefinitionType"), Tok("Identifier")>>),
   Enum |-> Cat(<<Tok("Enum"), Tok("Identifier"), Tok("Lbrace"), Star(NT("EnumValue")),
                  Tok("Rbrace")>>),
   EnumValue |-> Cat(<<Tok("Identifier"), Opt(Cat(<<Tok("Assign"), Tok("IntConstant")>>)),
                       Opt(NT("Ext")), Opt(Tok("ListSeparator"))>>),
   Struct |-> Cat(<<Tok("Struct"), Tok("Identifier"), Tok("Lbrace"), FieldList,
                    Tok("Rbrace"), Opt(NT("Ext"))>>),
   Field |-> Cat(<<Opt(Cat(<<Tok("IntConstant"), Tok("Colon")>>)),
                   Opt(OneOf(<<Tok("Required"), Tok("Optional")>>)),
                   NT("FieldType"), Tok("Identifier"),
                   Opt(Cat(<<Tok("Assign"), NT("ConstValue")>>)),
                   Opt(NT("Ext")), Opt(Tok("ListSeparator"))>>),
   Union |-> Cat(<<Tok("Union"), Tok("Identifier"), Tok("Lbrace"), FieldList,
                   Tok("Rbrace")>>),
   Exception |-> Cat(<<Tok("Exception"), Tok("Identifier"), Tok("Lbrace"), FieldList,
                       Tok("Rbrace")>>),
   Service |-> Cat(<<Tok("Service"), Tok("Identifier"),
                     Opt(Cat(<<Tok("Extends"), Tok("Identifier")>>)),
                     Tok("Lbrace"), Star(NT("Function")), Tok("Rbrace")>>),
   Function |-> Cat(<<Opt(Tok("Oneway")), NT("FunctionType"), Tok("Identifier"),
                      Tok("Lparen"), FieldList, Tok("Rparen"),
                      Opt(NT("Throws")), Opt(NT("Ext")), Opt(Tok("ListSeparator"))>>),
   FunctionType |-> OneOf(<<NT("FieldType"), Tok("Void")>>),
   Throws |-> Cat(<<Tok("Throws"), Tok("Lparen"), FieldList, Tok("Rparen")>>),
   Ext |-> Cat(<<Tok("Lparen"), Star(NT("KeyValuePair")), Tok("Rparen")>>),
   KeyValuePair |-> Cat(<<Tok("Identifier"), Tok("Assign"), Tok("Literal"),
                          Opt(Tok("ListSeparator"))>>)]

\* The positions at which a derivation of `item` that starts at position i of
\* `tokens` can end (the position after its last token).
RECURSIVE Ends(_, _, _)
RECURSIVE SeqEnds(_, _, _, _)
SeqEnds(items, n, tokens, from) ==
  IF n > Len(items) THEN from
  ELSE SeqEnds(items, n + 1, tokens, UNION {Ends(items[n], tokens, i) : i \in from})

Ends(item, tokens, i) ==
  CASE item.op = "tok" ->
         IF /\ i <= Len(tokens)
            /\ tokens[i].kind = item.kind
            /\ (item.any \/ tokens[i].value = item.value)
         THEN {i + 1} ELSE {}
    [] item.op = "nt" -> Ends(Grammar[item.name], tokens, i)
    [] item.op = "seq" -> SeqEnds(item.items, 1, tokens, {i})
    [] item.op = "alt" -> UNION {Ends(item.items[n], tokens, i) : n \in 1..Len(item.items)}
    [] item.op = "opt" -> {i} \cup Ends(item.item, tokens, i)
    [] item.op = "star" ->
         {i} \cup UNION {Ends(item, tokens, j) : j \in Ends(item.item, tokens, i) \ {i}}

\* The tokens of a text up to its end, comments left out.
RECURSIVE Tokens(_, _)
Tokens(text, state) ==
  LET r == scan(text, state)
  IN IF r.panic \/ is_eof(r.token) THEN <<>>
     ELSE IF is_comment(r.token) THEN Tokens(text, r.state)
     ELSE <<[kind |-> r.token.kind, value |-> r.token.value]>> \o Tokens(text, r.state)

Derivable(text) ==
  LET tokens == Tokens(text, NewScannerState)
  IN (Len(tokens) + 1) \in Ends(NT("Document"), tokens, 1)

(***************************************************************************)
(* C18: for every input whose token sequence is derivable from the         *)
(* document grammar, parse returns an empty error list.                    *)
(***************************************************************************)
C18_DerivableNoErrors ==
  (parse_result.done /\ Derivable(parse_input)) => parse_result.errors = <<>>

\* A derivable document with a struct and a field in it was parsed.
C18_Witness ==
  /\ parse_result.done
  /\ Derivable(parse_input)
  /\ \E i, j \in 1..Len(Tokens(parse_input, NewScannerState)) :
       /\ Tokens(parse_input, NewScannerState)[i].kind = "Struct"
       /\ Tokens(parse_input, NewScannerState)[j].kind = "Optional"

(***************************************************************************)
(* C19: for every input whose token sequence is not derivable from the     *)
(* document grammar, parse returns at least one error.                     *)
(***************************************************************************)
C19_NotDerivableErrors ==
  (parse_result.done /\ ~Derivable(parse_input)) => parse_result.errors # <<>>

(***************************************************************************)
(* Helpers of the properties of one synced document.                       *)
(***************************************************************************)
\* The last call was sync_document(p, c) and it returned.
JustSynced(p) == Returned /\ Last.op = "sync" /\ Last.path = p

\* The document of the content given to the last call.
SyncedDocument == Parse(Last.content).node

\* The indices of the errors of a list that have a message head and a range.
ErrorsAt(es, head, range) ==
  {k \in 1..Len(es) : es[k].message[1] = head /\ es[k].range = range}

(***************************************************************************)
(* C11: after sync_document(p, c) the errors of p hold 'Undefined type: X' *)
(* at the range of X for exactly the identifier occurrences (const types,  *)
(* struct, union and exception field types, the extends target of a        *)
(* service, return, parameter and throws types of functions, at any depth  *)
(* inside map, set and list) that resolve neither in the type table of p   *)
(* nor through an included namespace; base types never give the error.     *)
(***************************************************************************)
\* The identifiers inside a type, at any depth.
RECURSIVE TypeIdentifiers(_)
TypeIdentifiers(type) ==
  IF type.kind = "Identifier" THEN {type}
  ELSE UNION {TypeIdentifiers(children(type)[i]) : i \in 1..Len(children(type))}

FieldsIdentifiers(fields) ==
  UNION {TypeIdentifiers(fields[i].field_type) : i \in 1..Len(fields)}

\* The identifier occurrences in the type positions of a definition.
TypeOccurrences(def) ==
  CASE def.kind = "Const" -> TypeIdentifiers(def.field_type)
    [] def.kind \in {"Struct", "Union", "Exception"} ->
         FieldsIdentifiers(def.fields)
    [] def.kind = "Service" ->
         (IF def.extends.some THEN {def.extends.node} ELSE {})
         \cup UNION {TypeIdentifiers(def.functions[f].function_type)
                     \cup FieldsIdentifiers(def.functions[f].fields)
                     \cup (IF def.functions[f].throws.some
                           THEN FieldsIdentifiers(def.functions[f].throws.node)
                           ELSE {}) : f \in 1..Len(def.functions)}
    [] OTHER -> {}

\* A name resolves in a table: a plain name is a key of its types, a name
\* ns.rest resolves when ns is an included namespace in whose table rest
\* resolves.
RECURSIVE ResolvesIn(_, _)
ResolvesIn(table, name) ==
  LET dots == {i \in 1..Len(name) : name[i] = Dot}
  IN IF dots = {} THEN name \in DOMAIN table.types
     ELSE LET d == CHOOSE i \in dots : \A j \in dots : i <= j
              ns == SubSeq(name, 1, d - 1)
          IN /\ ns \in DOMAIN table.includes
             /\ ResolvesIn(table.includes[ns], SubSeq(name, d + 1, Len(name)))

C11_UndefinedTypes ==
  \A p \in Paths :
    JustSynced(p) =>
      LET defs == SyncedDocument.definitions
          occurrences == UNION {TypeOccurrences(defs[d]) : d \in 1..Len(defs)}
          es == ErrorsOf(An, p)
      IN /\ \A x \in occurrences :
              /\ Cardinality(ErrorsAt(es, "Undefined type: ", x.range))
                   = IF ResolvesIn(symbol_tables[p], x.name) THEN 0 ELSE 1
              /\ \A k \in ErrorsAt(es, "Undefined type: ", x.range) :
                   es[k].message[2] = x.name
         /\ \A k \in 1..Len(es) :
              IsUndefinedType(es[k]) =>
                \E x \in occurrences : x.range = es[k].range

\* A document with an undefined and a resolved type inside a container, and
\* one with an undefined throws type, were synced.
C11_Witness ==
  /\ JustSynced(PathA)
  /\ \E d \in 1..Len(SyncedDocument.definitions) :
       \E x, y \in TypeOccurrences(SyncedDocument.definitions[d]) :
         /\ Len(x.name) > 1 /\ ResolvesIn(symbol_tables[PathA], x.name)
         /\ Len(y.name) > 1 /\ ~ResolvesIn(symbol_tables[PathA], y.name)

(***************************************************************************)
(* C12: for a synced document with two top-level definitions of the same   *)
(* name N, the errors of the document hold exactly one 'Duplicate          *)
(* definition: N', at the range of the second definition, and the type     *)
(* table maps N to the first definition: a reference to N resolves to it.  *)
(***************************************************************************)
NamedAt(defs, name) == {i \in 1..Len(defs) : defs[i].identifier.name = name}

DuplicateErrors(es, name) ==
  {k \in 1..Len(es) : es[k].message[1] = "Duplicate definition: "
                       /\ es[k].message[2] = name}

C12_DuplicateDefinition ==
  \A p \in Paths :
    JustSynced(p) =>
      LET defs == SyncedDocument.definitions
          es == ErrorsOf(An, p)
          table == symbol_tables[p]
      IN \A i, j \in 1..Len(defs) :
           (i < j /\ NamedAt(defs, defs[i].identifier.name) = {i, j}) =>
             LET N == defs[i].identifier.name
                 found == find_definition_of_identifier_type(
                            table, IdentifierNode(defs[j].identifier.range, N))
             IN /\ Cardinality(DuplicateErrors(es, N)) = 1
                /\ \A k \in DuplicateErrors(es, N) : es[k].range = defs[j].range
                /\ N \in DOMAIN table.types
                /\ table.types[N] = defs[i]
                /\ found.some /\ found.def = defs[i]

\* A document with a struct and a union of one name was synced.
C12_Witness ==
  /\ JustSynced(PathA)
  /\ \E i, j \in 1..Len(SyncedDocument.definitions) :
       /\ i < j
       /\ SyncedDocument.definitions[i].kind = "Struct"
       /\ SyncedDocument.definitions[j].kind = "Union"
       /\ NamedAt(SyncedDocument.definitions,
                  SyncedDocument.definitions[i].identifier.name) = {i, j}

(***************************************************************************)
(* C13: in every struct, union, exception and function parameter list, a   *)
(* field whose ID equals the ID of an earlier field of the list gives      *)
(* exactly one 'Duplicate field ID: <n>' at the range of its ID, a field   *)
(* whose name equals the name of an earlier field of the list gives        *)
(* exactly one 'Duplicate field identifier: <name>' at its name, and the   *)
(* first occurrence of an ID or a name gives no such error.                *)
(***************************************************************************)
\* The field lists of a definition.
FieldLists(def) ==
  CASE def.kind \in {"Struct", "Union", "Exception"} -> {def.fields}
    [] def.kind = "Service" ->
         {def.functions[f].fields : f \in 1..Len(def.functions)}
    [] OTHER -> {}

RepeatsId(fields, j) ==
  /\ fields[j].field_id.some
  /\ \E i \in 1..(j - 1) :
       /\ fields[i].field_id.some
       /\ fields[i].field_id.node.id = fields[j].field_id.node.id

RepeatsName(fields, j) ==
  \E i \in 1..(j - 1) : fields[i].identifier.name = fields[j].identifier.name

C13_DuplicateFields ==
  \A p \in Paths :
    JustSynced(p) =>
      LET defs == SyncedDocument.definitions
          es == ErrorsOf(An, p)
      IN \A d \in 1..Len(defs) : \A fields \in FieldLists(defs[d]) :
           \A j \in 1..Len(fields) :
             LET ids == IF fields[j].field_id.some
                        THEN ErrorsAt(es, "Duplicate field ID: ",
                                      fields[j].field_id.node.range)
                        ELSE {}
                 names == ErrorsAt(es, "Duplicate field identifier: ",
                                   fields[j].identifier.range)
             IN /\ Cardinality(ids) = IF RepeatsId(fields, j) THEN 1 ELSE 0
                /\ \A k \in ids :
                     es[k].message[2] = i32_to_string(fields[j].field_id.node.id)
                /\ Cardinality(names) = IF RepeatsName(fields, j) THEN 1 ELSE 0
                /\ \A k \in names : es[k].message[2] = fields[j].identifier.name

\* A service whose function repeats an ID and a name in its parameters was
\* synced.
C13_Witness ==
  /\ JustSynced(PathA)
  /\ \E d \in 1..Len(SyncedDocument.definitions) :
       /\ SyncedDocument.definitions[d].kind = "Service"
       /\ \E fields \in FieldLists(SyncedDocument.definitions[d]) :
            \E j \in 1..Len(fields) : RepeatsId(fields, j) /\ RepeatsName(fields, j)

(***************************************************************************)
(* C14: the name of a const definition is never a key of the type map of   *)
(* a symbol table: the keys of types are exactly the names of the typedef, *)
(* enum, struct, union, exception and service definitions of the document. *)
(***************************************************************************)
C14_ConstNotInTypes ==
  \A p \in Paths :
    JustSynced(p) =>
      DOMAIN symbol_tables[p].types
        = {SyncedDocument.definitions[d].identifier.name :
             d \in {i \in 1..Len(SyncedDocument.definitions) :
                      SyncedDocument.definitions[i].kind # "Const"}}

(***************************************************************************)
(* C15: types_for_completion(path, pos), when the character just left of   *)
(* pos is '.', takes the run of identifier characters just left of that    *)
(* dot: if it is a namespace included by path the result is exactly the    *)
(* type names of that included table, otherwise it is the one-element list *)
(* [""]; in this case the types of path itself are never the result.       *)
(***************************************************************************)
\* The position just right of the character at index i of a text.
CursorAfter(text, i) ==
  LET feeds == {j \in 1..(i - 1) : text[j] = LF}
      last == IF feeds = {} THEN 0 ELSE CHOOSE j \in feeds : \A k \in feeds : k <= j
  IN Pos(1 + Cardinality(feeds), i - last + 1)

\* The longest run of identifier characters that ends just before index i.
WordBefore(text, i) ==
  LET starts == {k \in 1..i : \A j \in k..(i - 1) : text[j] \in IdentifierChars}
  IN SubSeq(text, CHOOSE k \in starts : \A j \in starts : k <= j, i - 1)

DotsOf(text) == {i \in 1..Len(text) : text[i] = Dot}

C15_DotCompletion ==
  \A p \in Paths :
    (p \in DOMAIN documents /\ p \in DOMAIN symbol_tables) =>
      LET text == Text(documents[p])
          includes == symbol_tables[p].includes
      IN \A i \in DotsOf(text) :
           LET word == WordBefore(text, i)
               got == types_for_completion(An, p, CursorAfter(text, i))
           IN IF word \in DOMAIN includes
              THEN got = DOMAIN includes[word].types
              ELSE got = {<<>>}

\* A stored document has a dot after an included namespace that has types
\* and a dot after a word that is no included namespace.
C15_Witness ==
  /\ PathA \in DOMAIN documents
  /\ PathA \in DOMAIN symbol_tables
  /\ \E i, j \in DotsOf(Text(documents[PathA])) :
       /\ WordBefore(Text(documents[PathA]), i) \in DOMAIN symbol_tables[PathA].includes
       /\ symbol_tables[PathA].includes[WordBefore(Text(documents[PathA]), i)].types
            # EmptyMap
       /\ WordBefore(Text(documents[PathA]), j) \notin DOMAIN symbol_tables[PathA].includes

(***************************************************************************)
(* C16: for every synced document, semantic_tokens(path) holds five        *)
(* numbers for each collected type or function identifier, and adding up   *)
(* the (deltaLine, deltaStart) pairs, deltaStart starting again from the   *)
(* column when deltaLine > 0, gives the zero-based (line, column) of those *)
(* identifiers in ascending order of position: the position never          *)
(* decreases and no delta is below zero.                                   *)
(***************************************************************************)
\* The positions that the deltas of a token stream add up to.
RECURSIVE Decode(_, _, _, _)
Decode(tokens, k, line, column) ==
  IF 5 * k > Len(tokens) THEN <<>>
  ELSE LET delta_line == tokens[5 * k - 4]
           delta_start == tokens[5 * k - 3]
           l == line + delta_line
           c == IF delta_line > 0 THEN delta_start ELSE column + delta_start
       IN <<[line |-> l, column |-> c]>> \o Decode(tokens, k + 1, l, c)

CollectedIdentifiers(p) ==
  LET types == find_field_type_identifiers(An, p)
      functions == find_function_identifiers(An, p)
  IN {types[i] : i \in 1..Len(types)} \cup {functions[i] : i \in 1..Len(functions)}

C16_SemanticTokens ==
  \A p \in Paths :
    JustSynced(p) =>
      LET tokens == semantic_tokens[p]
          positions == Decode(tokens, 1, 0, 0)
          collected == CollectedIdentifiers(p)
      IN /\ Len(tokens) = 5 * Cardinality(collected)
         /\ \A k \in 1..Len(positions) :
              tokens[5 * k - 4] >= 0 /\ tokens[5 * k - 3] >= 0
         /\ {positions[k] : k \in 1..Len(positions)}
              = {[line |-> x.range.start.line - 1,
                  column |-> x.range.start.column - 1] : x \in collected}
         /\ \A k \in 1..(Len(positions) - 1) :
              \/ positions[k].line < positions[k + 1].line
              \/ /\ positions[k].line = positions[k + 1].line
                 /\ positions[k].column < positions[k + 1].column

\* A document with a function identifier between type identifiers, on its
\* second line, was synced.
C16_Witness ==
  /\ JustSynced(PathA)
  /\ find_function_identifiers(An, PathA) # <<>>
  /\ Len(semantic_tokens[PathA]) >= 15

(***************************************************************************)
(* C20: after every sequence of sync_document and remove_document calls,   *)
(* for every path p with a stored symbol table, no symbol table that is    *)
(* reached from the table of p by following `includes` one or more times   *)
(* has the path p.                                                         *)
(***************************************************************************)
\* The tables reached from a table by following includes one or more times.
RECURSIVE TablesBelow(_)
TablesBelow(table) ==
  UNION {{table.includes[ns]} \cup TablesBelow(table.includes[ns]) :
           ns \in DOMAIN table.includes}

C20_NoPathInOwnChain ==
  ~crashed =>
    \A p \in DOMAIN symbol_tables :
      \A t \in TablesBelow(symbol_tables[p]) : t.path # p

(***************************************************************************)
(* C24: block comments nest: for every input in which some comment opener  *)
(* has no matching closer before the end of the input (an opener that is   *)
(* the last two characters included, and an unclosed outer comment whose   *)
(* nested comment is closed just before the end of the input), scan        *)
(* returns an InvalidString token with an 'Unclosed block comment' error,  *)
(* never a BlockComment token, and does not panic.                         *)
(***************************************************************************)
\* From index k on, inside `depth` open comments, the text ends before the
\* outermost comment is closed.
RECURSIVE UnclosedComment(_, _, _)
UnclosedComment(text, k, depth) ==
  IF k > Len(text) THEN TRUE
  ELSE IF k < Len(text) /\ text[k] = "/" /\ text[k + 1] = "*"
  THEN UnclosedComment(text, k + 2, depth + 1)
  ELSE IF k < Len(text) /\ text[k] = "*" /\ text[k + 1] = "/"
  THEN IF depth = 1 THEN FALSE ELSE UnclosedComment(text, k + 2, depth - 1)
  ELSE UnclosedComment(text, k + 1, depth)

\* The scan that started at `from` met the opener of a block comment.
OpensComment(text, from) ==
  LET q == FirstVisible(text, from.offset)
  IN q > 0 /\ q < Len(text) /\ text[q] = "/" /\ text[q + 1] = "*"

OpensUnclosedComment(text, from) ==
  /\ OpensComment(text, from)
  /\ UnclosedComment(text, FirstVisible(text, from.offset) + 2, 1)

C24_UnclosedBlockComment ==
  \A i \in 1..Len(scan_log) :
    OpensUnclosedComment(scan_input, scan_log[i].from) =>
      /\ ~scan_log[i].panic
      /\ scan_log[i].token.kind = "InvalidString"
      /\ scan_log[i].err.some
      /\ scan_log[i].err.message[1] = "Unclosed block comment: "

(***************************************************************************)
(* C25: a string literal ends at the first occurrence of its opening       *)
(* delimiter that is not escaped, where a backslash escapes exactly the    *)
(* one character that follows it: a delimiter preceded by an even number   *)
(* of consecutive backslashes closes the literal, a delimiter preceded by  *)
(* an odd number does not.  The scan of a literal that is closed returns   *)
(* a Literal token whose value is the text between the two delimiters.     *)
(***************************************************************************)
\* The index of the first delimiter d at index k or later that is not
\* escaped, 0 if there is none.
RECURSIVE ClosingDelimiter(_, _, _)
ClosingDelimiter(text, k, d) ==
  IF k > Len(text) THEN 0
  ELSE IF text[k] = "\\" THEN ClosingDelimiter(text, k + 2, d)
  ELSE IF text[k] = d THEN k
  ELSE ClosingDelimiter(text, k + 1, d)

\* The scan that started at `from` met a quote.
OpensString(text, from) ==
  LET q == FirstVisible(text, from.offset)
  IN q > 0 /\ text[q] \in {"\"", "'"}

C25_LiteralEnd ==
  \A i \in 1..Len(scan_log) :
    OpensString(scan_input, scan_log[i].from) =>
      LET q == FirstVisible(scan_input, scan_log[i].from.offset)
          c == ClosingDelimiter(scan_input, q + 1, scan_input[q])
      IN c > 0 =>
           /\ ~scan_log[i].panic
           /\ scan_log[i].token.kind = "Literal"
           /\ scan_log[i].token.value = SubSeq(scan_input, q + 1, c - 1)

(***************************************************************************)
(* C26: for every input and every token returned by successive scan calls  *)
(* (Eof included), the position of the token is the true position of its   *)
(* first character: its line is 1 + the number of line breaks before it    *)
(* (CR LF counted once), its column is 1 + the number of characters since  *)
(* the last line break; also for the tokens after multi-line strings,      *)
(* multi-line block comments, nested block comments and a line comment     *)
(* that ends the input.                                                    *)
(***************************************************************************)
\* A line break ends at index k: a line feed, or a carriage return that no
\* line feed follows.
EndsLineBreak(text, k) ==
  \/ text[k] = "\n"
  \/ text[k] = "\r" /\ ~(k < Len(text) /\ text[k + 1] = "\n")

\* The position of the character at index k; k = Len(text) + 1 is the end of
\* the text.
TruePosition(text, k) ==
  LET breaks == {j \in 1..(k - 1) : EndsLineBreak(text, j)}
      last == IF breaks = {} THEN 0 ELSE CHOOSE j \in breaks : \A b \in breaks : b <= j
  IN Pos(1 + Cardinality(breaks), k - last)

\* The index of the first character of the token of a scan that started at
\* `from`: the first visible character, or the end of the text.
TokenStart(text, from) ==
  IF FirstVisible(text, from.offset) = 0 THEN Len(text) + 1
  ELSE FirstVisible(text, from.offset)

C26_TokenPosition ==
  \A i \in 1..Len(scan_log) :
    ~scan_log[i].panic =>
      scan_log[i].token.position
        = TruePosition(scan_input, TokenStart(scan_input, scan_log[i].from))

(***************************************************************************)
(* C27: Parser::parse terminates on every finite input: every iteration of *)
(* the loops of parse_headers, parse_definitions and                       *)
(* recover_to_next_definition either moves the offset of the scanner       *)
(* forward by at least one character or leaves the loop, and the offset    *)
(* never exceeds the length of the input.                                  *)
(***************************************************************************)
LoopProgress ==
  /\ loop_parser'.state.offset <= Len(parse_input)
  /\ loop_pc' = loop_pc => loop_parser'.state.offset > loop_parser.state.offset

IncludedBy(path) ==
  IF ~Effective(path).some THEN {}
  ELSE LET deps == Dependencies(path, Parse(Effective(path).content).node)
       IN {deps[i].path : i \in 1..Len(deps)}

\* The paths reached from a set of paths in at most n steps of inclusion.
RECURSIVE Reached(_, _)
Reached(from, n) ==
  IF n = 0 THEN from
  ELSE Reached(from \cup UNION {IncludedBy(f) : f \in from}, n - 1)

AllPaths == Paths \cup {PathM}

\* The paths reached from `path` by one inclusion or more.
Below(path) == Reached(IncludedBy(path), Cardinality(AllPaths))

Acyclic(path) == \A f \in {path} \cup Below(path) : f \notin Below(f)

CircularErrors(an, path) == SelectSeq(ErrorsOf(an, path), IsCircular)

\* The files that the last call has analysed: the synced path and the files
\* that have a tree now and had none before.
Analysed(p) == {p} \cup (DOMAIN document_nodes \ DOMAIN prev.document_nodes)

Occurrences(s, x) == Cardinality({i \in 1..Len(s) : s[i] = x})

C22_ParsedOnce ==
  \A p \in Paths :
    JustSynced(p) =>
      LET parser_errors == Parse(Last.content).errors
      IN /\ \A i \in 1..Len(parser_errors) :
              Occurrences(ErrorsOf(An, p), parser_errors[i]) = 1
         /\ \A f \in DOMAIN prev.document_nodes \ {p} :
              /\ f \in DOMAIN document_nodes
              /\ document_nodes[f] = prev.document_nodes[f]
              /\ ErrorsOf(An, f) = ErrorsOf(prev, f)

(***************************************************************************)
(* C23: at every point of a sync_document call, a path that has an active  *)
(* parse_document call on the recursion stack is in `visited`: removing a  *)
(* dependency from visited after its recursive call returns never removes  *)
(* a path that is still being processed higher up the stack.               *)
(***************************************************************************)
\* The calls of parse_document are followed as parse_document makes them;
\* `stack` holds the paths of the calls that have marked their path and not
\* yet returned.  The stack is compared with `visited` when a call is
\* entered and after each removal of a dependency.
RECURSIVE StackVisited(_, _, _, _, _), StackVisitedLoop(_, _, _, _, _, _, _)
StackVisited(an, path, visited, active, stack) ==
  /\ stack \subseteq visited
  /\ IF \/ path \in visited
        \/ path \in DOMAIN an.document_nodes
        \/ ~(IF path \in DOMAIN an.documents THEN TRUE ELSE read_file(path).ok)
        \/ Configuration(an, path, visited) \in active
     THEN TRUE
     ELSE LET content == IF path \in DOMAIN an.documents THEN an.documents[path]
                         ELSE read_file(path).content
              parsed == Parse(content)
          IN StackVisitedLoop(ExtendErrors(an, path, parsed.errors), path,
                              visited \cup {path}, Dependencies(path, parsed.node), 1,
                              active \cup {Configuration(an, path, visited)},
                              stack \cup {path})

StackVisitedLoop(an, path, visited, dependencies, i, active, stack) ==
  IF i > Len(dependencies) THEN TRUE
  ELSE LET dep == dependencies[i]
           r == parse_document(an, dep.path, visited,
                               [some |-> TRUE, path |-> path, node |-> dep.header],
                               active)
           unmarked == r.visited \ {dep.path}
       IN /\ StackVisited(an, dep.path, visited, active, stack)
          /\ stack \subseteq unmarked
          /\ r.overflow
               \/ StackVisitedLoop(r.an, path, unmarked, dependencies, i + 1, active,
                                   stack)

\* The analyzer as analyze hands it to parse_document in the last call.
AtLastCall ==
  [prev EXCEPT !.documents = Put(@, Last.path, Last.content),
               !.document_nodes = Remove(@, Last.path),
               !.symbol_tables = Remove(@, Last.path),
               !.errors = Remove(@, Last.path),
               !.semantic_tokens = Remove(@, Last.path)]

C23_ActivePathsVisited ==
  (log # <<>> /\ Last.op = "sync") =>
    StackVisited(AtLastCall, Last.path, {}, {}, {})

(***************************************************************************)
(* C28: every complete framed message already received is returned by      *)
(* read_message without waiting for further input: the server never waits  *)
(* in read_buf for bytes of the peer while its buffer holds a complete     *)
(* message (as after one read that delivered two complete messages).       *)
(***************************************************************************)
\* read_buf cannot complete: nothing is on the wire and the peer has not
\* closed its end.
WaitsForInput == server_pc = "read" /\ wire = <<>> /\ ~closed

C28_ReceivedMessageReturned == WaitsForInput => ~try_decode_message(buffer).some

(***************************************************************************)
(* C29: when the input stream has reached its end (reads return zero       *)
(* bytes) and the buffer holds no complete message, read_message returns   *)
(* within finitely many steps, so that LanguageServer::run stops.          *)
(***************************************************************************)
AtEndOfInput ==
  /\ server_pc = "read"
  /\ closed
  /\ wire = <<>>
  /\ ~try_decode_message(buffer).some
  /\ ~try_decode_message(buffer).err

C29_EndOfInputStops == AtEndOfInput ~> (server_pc \in {"stopped", "failed"})

(***************************************************************************)
(* C30: every message with an id (a request) that the server reads before  *)
(* 'exit' is answered with exactly one response that carries the same id,  *)
(* whatever its method and parameters: once the server has handled the     *)
(* messages it has read, the responses written with an id are as many as   *)
(* the requests read with that id.                                         *)
(***************************************************************************)
Requests(id) ==
  Cardinality({i \in 1..Len(handled) :
                 handled[i].id = Id(id) /\ handled[i].method # "exit"})

Responses(id) ==
  Cardinality({i \in 1..Len(written) :
                 written[i].kind = "response" /\ written[i].id = Id(id)})

C30_EveryRequestAnswered ==
  server_pc \in {"read", "stopped"} => \A id \in 1..2 : Responses(id) = Requests(id)

====
